---------------------------- MODULE Spec2Model ----------------------------
(***************************************************************************)
(* A model of the versiontheca library: parts, the generic trait, the      *)
(* basic / decimal / roman / unicode / debian / rpm schemes and the        *)
(* versiontheca facade (set_version, get_version, next, previous,          *)
(* compare), translated from src/versiontheca/*.cpp.                        *)
(*                                                                         *)
(* Strings are TLA+ strings; the character at index i (1-based) of s is    *)
(* SubSeq(s, i, i).  The NUL character '\0' (NO_SEPARATOR, the type of an  *)
(* ordinary part, the padding of compare_strings) is the empty string.     *)
(* A part_integer_t (std::uint32_t) is a record [hi, lo] of two 16-bit     *)
(* halves, so that 4294967295 and the wrap-around of 32-bit arithmetic     *)
(* are exact.                                                              *)
(***************************************************************************)
EXTENDS Integers, Sequences, FiniteSets, TLC

VARIABLES
    scheme,       \* the trait the versions were constructed with
    parts,        \* f_trait->f_parts of the version under test
    valid,        \* versiontheca::f_valid
    last_error,   \* trait::f_last_error
    format,       \* the parts of versiontheca::f_format, <<>> when null
    exc,          \* the exception raised by the last call, or "none"
    out,          \* [set, str]: what the last call, a get_version(), returned
    hist,         \* the calls made on the version since it was constructed
    built,        \* [text, canonical]: the string it was constructed from
    objs,         \* the three versions a, b, c handed to compare
    cmp           \* the value of compare(x, y) for the pairs it was called on

vars == <<scheme, parts, valid, last_error, format, exc, out, hist, built,
          objs, cmp>>

-----------------------------------------------------------------------------
(* Characters *)

\* the printable ASCII characters, code 32 to 126, in code order (a space
\* stands at the place of the backquote, code 96, which no input uses)
Ascii ==
    " !\"#$%&'()*+,-./0123456789:;<=>?@ABCDEFGHIJKLMNOPQRSTUVWXYZ[\\]^_ abcdefghijklmnopqrstuvwxyz{|}~"

Chr(s, i) == SubSeq(s, i, i)

CharCode == [c \in {Chr(Ascii, i) : i \in 1..Len(Ascii)} |->
                31 + (CHOOSE i \in 1..Len(Ascii) :
                         /\ Chr(Ascii, i) = c
                         /\ \A j \in 1..(i - 1) : Chr(Ascii, j) # c)]

\* code of a character; the NUL character is the empty string
Ord(c) == IF c = "" THEN 0 ELSE CharCode[c]

IsDigit(c) == c # "" /\ Ord(c) >= 48 /\ Ord(c) <= 57
IsLower(c) == c # "" /\ Ord(c) >= 97 /\ Ord(c) <= 122
IsUpper(c) == c # "" /\ Ord(c) >= 65 /\ Ord(c) <= 90
IsLetter(c) == IsLower(c) \/ IsUpper(c)

\* character of a code
CharOf(n) == Chr(Ascii, n - 31)

RECURSIVE Repeat(_, _)
Repeat(c, n) == IF n <= 0 THEN "" ELSE c \o Repeat(c, n - 1)

\* std::string operator < : lexicographic on the bytes
RECURSIVE StrLess(_, _)
StrLess(a, b) ==
    IF b = "" THEN FALSE
    ELSE IF a = "" THEN TRUE
    ELSE IF Ord(Chr(a, 1)) # Ord(Chr(b, 1)) THEN Ord(Chr(a, 1)) < Ord(Chr(b, 1))
    ELSE StrLess(SubSeq(a, 2, Len(a)), SubSeq(b, 2, Len(b)))

\* std::string::find(c): 1-based index of the first c, 0 for npos
RECURSIVE FindFrom(_, _, _)
FindFrom(s, c, i) ==
    IF i > Len(s) THEN 0
    ELSE IF Chr(s, i) = c THEN i
    ELSE FindFrom(s, c, i + 1)

Find(s, c) == FindFrom(s, c, 1)

\* std::string::rfind(c): 1-based index of the last c, 0 for npos
RECURSIVE RFindFrom(_, _, _)
RFindFrom(s, c, i) ==
    IF i < 1 THEN 0
    ELSE IF Chr(s, i) = c THEN i
    ELSE RFindFrom(s, c, i - 1)

RFind(s, c) == RFindFrom(s, c, Len(s))

-----------------------------------------------------------------------------
(* part_integer_t: std::uint32_t as two 16-bit halves *)

Half == 65536

U32(h, l) == [hi |-> h, lo |-> l]

\* a natural number below 2^31 as a part_integer_t
FromNat(n) == U32(n \div Half, n % Half)

Zero32 == U32(0, 0)

\* std::numeric_limits<part_integer_t>::max()
Max32 == U32(Half - 1, Half - 1)

U32Less(a, b) == a.hi < b.hi \/ (a.hi = b.hi /\ a.lo < b.lo)

\* the value of (int)x for a part_integer_t x, as an ordering key:
\* values of 2^31 and more become negative
IntKey(a) == U32((a.hi + Half \div 2) % Half, a.lo)

\* (int)a < (int)b
IntLess(a, b) == U32Less(IntKey(a), IntKey(b))

\* x * 10 + d modulo 2^32
U32Mul10Add(a, d) ==
    LET l == a.lo * 10 + d
    IN  U32((a.hi * 10 + l \div Half) % Half, l % Half)

\* x + n and x - n modulo 2^32, for 0 <= n < 65536
U32Add(a, n) ==
    LET l == a.lo + n
    IN  U32((a.hi + l \div Half) % Half, l % Half)

U32Sub(a, n) ==
    IF a.lo >= n THEN U32(a.hi, a.lo - n)
    ELSE U32((a.hi + Half - 1) % Half, a.lo + Half - n)

\* x / 10 and x % 10
U32Div10(a) == U32(a.hi \div 10, ((a.hi % 10) * Half + a.lo) \div 10)

U32Mod10(a) == ((a.hi % 10) * Half + a.lo) % 10

\* std::to_string(part_integer_t)
RECURSIVE U32Str(_)
U32Str(a) ==
    IF a.hi = 0 /\ a.lo < 10 THEN CharOf(48 + a.lo)
    ELSE U32Str(U32Div10(a)) \o CharOf(48 + U32Mod10(a))

-----------------------------------------------------------------------------
(* class part *)

MAX_PARTS == 25

\* a default constructed part
DefaultPart ==
    [sep |-> "", width |-> 0, type |-> "", is_integer |-> TRUE,
     integer |-> Zero32, string |-> ""]

set_separator(p, c) == [p EXCEPT !.sep = c]

\* the parameter is a std::uint8_t
set_width(p, w) == [p EXCEPT !.width = w % 256]

set_type(p, t) == [p EXCEPT !.type = t]

set_string(p, s) ==
    [p EXCEPT !.is_integer = FALSE, !.integer = Zero32, !.string = s]

set_integer(p, i) ==
    [p EXCEPT !.is_integer = TRUE, !.integer = i, !.string = ""]

set_to_max_string(p, len) == set_string(p, Repeat("z", len))

set_to_max_integer(p) == set_integer(p, Max32)

\* the loop of part::set_value from character i on, the integer read so far
\* being acc:  [ok, part, err]
RECURSIVE SetValueLoop(_, _, _, _)
SetValueLoop(p, value, i, acc) ==
    IF i > Len(value)
    THEN [ok |-> TRUE, part |-> set_integer(p, acc), err |-> ""]
    ELSE IF IsDigit(Chr(value, i))
    THEN LET next == U32Mul10Add(acc, Ord(Chr(value, i)) - 48)
         IN  IF U32Less(next, acc)
             THEN [ok |-> FALSE, part |-> p,
                   err |-> "integer too large for a valid version."]
             ELSE SetValueLoop(p, value, i + 1, next)
    ELSE [ok |-> TRUE, part |-> set_string(p, value), err |-> ""]

set_value(p, value) == SetValueLoop(p, value, 1, Zero32)

\* the loop of part::next on a string: s is the working copy, pos the number
\* of characters not yet visited
RECURSIVE NextLetters(_, _)
NextLetters(s, pos) ==
    IF pos = 0 THEN s
    ELSE LET c == Chr(s, pos)
         IN  IF IsLower(c) /\ c # "z"
             THEN SubSeq(s, 1, pos - 1) \o CharOf(Ord(c) + 1)
                      \o SubSeq(s, pos + 1, Len(s))
             ELSE IF c = "z"
             THEN NextLetters(SubSeq(s, 1, pos - 1) \o "a"
                                 \o SubSeq(s, pos + 1, Len(s)), pos - 1)
             ELSE NextLetters(s, pos - 1)

\* part::next: [ok, part]
part_next(p) ==
    IF p.is_integer
    THEN IF ~U32Less(p.integer, Max32)
         THEN [ok |-> FALSE, part |-> p]
         ELSE [ok |-> TRUE, part |-> [p EXCEPT !.integer = U32Add(@, 1)]]
    ELSE LET s == NextLetters(p.string, Len(p.string))
         IN  IF s = p.string \/ StrLess(s, p.string)
             THEN [ok |-> FALSE, part |-> p]
             ELSE [ok |-> TRUE, part |-> [p EXCEPT !.string = s]]

RECURSIVE PreviousLetters(_, _)
PreviousLetters(s, pos) ==
    IF pos = 0 THEN s
    ELSE LET c == Chr(s, pos)
         IN  IF IsLower(c) /\ c # "a"
             THEN SubSeq(s, 1, pos - 1) \o CharOf(Ord(c) - 1)
                      \o SubSeq(s, pos + 1, Len(s))
             ELSE IF c = "a"
             THEN PreviousLetters(SubSeq(s, 1, pos - 1) \o "z"
                                     \o SubSeq(s, pos + 1, Len(s)), pos - 1)
             ELSE PreviousLetters(s, pos - 1)

\* a part::previous that leaves the part as it is
part_previous_kept(p) == [ok |-> TRUE, part |-> p]

\* part::previous: [ok, part]
part_previous(p) ==
    IF p.is_integer
    THEN IF ~U32Less(Zero32, p.integer)
         THEN [ok |-> FALSE, part |-> p]
         ELSE [ok |-> TRUE, part |-> [p EXCEPT !.integer = U32Sub(@, 1)]]
    ELSE LET s == PreviousLetters(p.string, Len(p.string))
         IN  IF s = p.string \/ StrLess(p.string, s)
             THEN [ok |-> FALSE, part |-> p]
             ELSE [ok |-> TRUE, part |-> [p EXCEPT !.string = s]]

\* part::to_string
part_to_string(p) == IF p.is_integer THEN U32Str(p.integer) ELSE p.string

\* part::is_zero
is_zero(p) ==
    IF p.is_integer THEN p.integer = Zero32
    ELSE \A i \in 1..Len(p.string) : Chr(p.string, i) = "a"

\* part::compare
part_compare(l, r) ==
    IF l.is_integer /\ r.is_integer
    THEN IF U32Less(l.integer, r.integer) THEN -1
         ELSE IF U32Less(r.integer, l.integer) THEN 1
         ELSE 0
    ELSE LET ls == part_to_string(l)
             rs == part_to_string(r)
         IN  IF StrLess(ls, rs) THEN -1
             ELSE IF StrLess(rs, ls) THEN 1
             ELSE 0

-----------------------------------------------------------------------------
(* class trait: the container and the default parser.  An operation in    *)
(* progress is a record [ok, parts, err, exc]: the value it returns, the  *)
(* parts, f_last_error and the exception it raised ("none" if it did not  *)
(* raise any); once exc is set nothing further happens.                   *)

Schemes == {"basic", "decimal", "roman", "unicode", "debian", "rpm"}

Ctx(o, ps, e, x) == [ok |-> o, parts |-> ps, err |-> e, exc |-> x]

\* a push_back that does not look at the number of parts
push_back_unchecked(c, p) ==
    IF c.exc # "none" THEN c ELSE [c EXCEPT !.parts = Append(@, p)]

\* trait::push_back
push_back(c, p) ==
    IF c.exc # "none" THEN c
    ELSE IF Len(c.parts) >= MAX_PARTS
    THEN [c EXCEPT !.ok = FALSE, !.exc = "invalid_parameter"]
    ELSE [c EXCEPT !.parts = Append(@, p)]

\* trait::insert; index is 0-based
insert(c, index, p) ==
    IF c.exc # "none" THEN c
    ELSE IF Len(c.parts) >= MAX_PARTS
    THEN [c EXCEPT !.ok = FALSE, !.exc = "invalid_parameter"]
    ELSE [c EXCEPT !.parts = SubSeq(@, 1, index) \o <<p>>
                                  \o SubSeq(@, index + 1, Len(@))]

\* trait::erase; index is 0-based, a negative int becomes a huge size_t
erase(c, index) ==
    IF c.exc # "none" THEN c
    ELSE IF index < 0 \/ index >= Len(c.parts)
    THEN [c EXCEPT !.ok = FALSE, !.exc = "invalid_parameter"]
    ELSE [c EXCEPT !.parts = SubSeq(@, 1, index)
                                  \o SubSeq(@, index + 2, Len(@))]

\* std::vector::resize: the parts added are default constructed
RECURSIVE Resized(_, _)
Resized(ps, sz) ==
    IF Len(ps) >= sz THEN SubSeq(ps, 1, sz)
    ELSE Resized(Append(ps, DefaultPart), sz)

\* trait::resize
resize(c, sz) ==
    IF c.exc # "none" THEN c
    ELSE IF sz > MAX_PARTS
    THEN [c EXCEPT !.ok = FALSE, !.exc = "invalid_parameter"]
    ELSE [c EXCEPT !.parts = Resized(@, sz)]

\* trait::at(index) is std::vector::at: it raises std::out_of_range
InRange(ps, index) == index >= 0 /\ index < Len(ps)

\* the part at a 0-based index
At(ps, index) == ps[index + 1]

\* f_parts[index] = p
SetAt(ps, index, p) == [ps EXCEPT ![index + 1] = p]

\* trait::is_separator and rpm::is_separator
is_separator(sch, c) ==
    IF sch = "rpm" THEN c = "+" \/ c = "."
    ELSE c = "."

\* trait::is_valid_character and its overrides; mode is debian's
\* f_accepted_chars
is_valid_character(sch, mode, c) ==
    CASE sch = "decimal" -> IsDigit(c)
      [] sch = "rpm" -> IsDigit(c) \/ IsLetter(c) \/ c = "~" \/ c = "^" \/ c = "_"
      [] sch = "debian" ->
            IF IsDigit(c) THEN TRUE
            ELSE IF mode = "EPOCH" THEN FALSE
            ELSE IF IsLetter(c) \/ c = "+" \/ c = "." \/ c = "~" THEN TRUE
            ELSE IF mode = "DEBIAN_REVISION" THEN FALSE
            ELSE c = "-" \/ c = ":"
      [] OTHER -> c # "."

HexDigits == "0123456789ABCDEF"

\* snapdev::int_to_hex(c, true, 6) of a character below 256
Hex6(n) == "0000" \o Chr(HexDigits, (n \div 16) + 1) \o Chr(HexDigits, (n % 16) + 1)

\* first index >= i of value that is not a digit (Len + 1 if none)
RECURSIVE DigitsEnd(_, _)
DigitsEnd(value, i) ==
    IF i <= Len(value) /\ IsDigit(Chr(value, i)) THEN DigitsEnd(value, i + 1)
    ELSE i

\* first index >= i of value that is a digit or an invalid character
RECURSIVE LettersEnd(_, _, _, _)
LettersEnd(sch, mode, value, i) ==
    IF i <= Len(value) /\ ~IsDigit(Chr(value, i))
          /\ is_valid_character(sch, mode, Chr(value, i))
    THEN LettersEnd(sch, mode, value, i + 1)
    ELSE i

RECURSIVE ParseValueLoop(_, _, _, _, _, _)

\* the digits value[i .. j-1] read by trait::parse_value, sv being what
\* part::set_value made of them: the number part is pushed
ParseDigits(c, sv, i, j, sep) ==
    IF j = i THEN c
    ELSE IF ~sv.ok THEN [c EXCEPT !.ok = FALSE, !.err = sv.err]
    ELSE push_back(c, set_separator(set_width(sv.part, j - i), sep))

\* the letters value[j .. k-1] read by trait::parse_value: k stops at a
\* character that is not valid, or the letters part is pushed and the loop
\* goes on from k
ParseLetters(sch, mode, c, value, j, k, sep) ==
    IF ~c.ok \/ c.exc # "none" THEN c
    ELSE IF k <= Len(value) /\ ~IsDigit(Chr(value, k))
    THEN [c EXCEPT !.ok = FALSE,
                   !.err = "found unexpected character: \\U"
                             \o Hex6(Ord(Chr(value, k))) \o " in input."]
    ELSE ParseValueLoop(sch, mode,
                        IF k = j THEN c
                        ELSE push_back(c, set_string(set_separator(DefaultPart, sep),
                                                     SubSeq(value, j, k - 1))),
                        value, k, IF k = j THEN sep ELSE "")

\* one turn of the while loop of trait::parse_value, the digits ending at j
ParseValueTurn(sch, mode, c, value, i, j, sep) ==
    ParseLetters(sch, mode,
                 ParseDigits(c, set_value(DefaultPart, SubSeq(value, i, j - 1)),
                             i, j, sep),
                 value, j, LettersEnd(sch, mode, value, j),
                 IF j = i THEN sep ELSE "")

\* the while loop of trait::parse_value from character i on
ParseValueLoop(sch, mode, c, value, i, sep) ==
    IF c.exc # "none" \/ i > Len(value) THEN c
    ELSE ParseValueTurn(sch, mode, c, value, i, DigitsEnd(value, i), sep)

\* trait::parse_value
parse_value(sch, mode, c, value, sep) ==
    IF value = ""
    THEN [c EXCEPT !.ok = FALSE,
                   !.err = "a version value cannot be an empty string."]
    ELSE ParseValueLoop(sch, mode, [c EXCEPT !.ok = TRUE], value, 1, sep)

\* the for loop of trait::parse_version from character i on; value is the
\* text read since the last separator
RECURSIVE ParseVersionLoop(_, _, _, _, _, _, _)
ParseVersionLoop(sch, mode, c, v, i, value, sep) ==
    IF ~c.ok THEN c
    ELSE IF i > Len(v) THEN parse_value(sch, mode, c, value, sep)
    ELSE IF is_separator(sch, Chr(v, i))
    THEN ParseVersionLoop(sch, mode, parse_value(sch, mode, c, value, sep),
                          v, i + 1, "", Chr(v, i))
    ELSE ParseVersionLoop(sch, mode, c, v, i + 1, value \o Chr(v, i), sep)

\* trait::parse_version
parse_version(sch, mode, c, v, sep) == ParseVersionLoop(sch, mode, c, v, 1, "", sep)

\* trait::parse: it clears the parts first
trait_parse(sch, c, v) ==
    IF v = ""
    THEN [c EXCEPT !.parts = <<>>, !.ok = FALSE,
             !.err = "an empty input string cannot represent a valid version."]
    ELSE parse_version(sch, "UPSTREAM", [c EXCEPT !.parts = <<>>, !.ok = TRUE], v, "")

-----------------------------------------------------------------------------
(* The schemes' parsers *)

\* basic::parse after trait::parse(v) gave c
BasicCheck(c) ==
    IF ~c.ok THEN c
    ELSE IF \E i \in 1..Len(c.parts) : ~c.parts[i].is_integer
    THEN [c EXCEPT !.ok = FALSE]
    ELSE c

\* basic::parse
basic_parse(c, v) == BasicCheck(trait_parse("basic", c, v))

\* decimal::parse after trait::parse(v) gave c
DecimalCheck(c) ==
    IF ~c.ok THEN c
    ELSE [c EXCEPT !.ok =
             /\ Len(c.parts) = 1 \/ Len(c.parts) = 2
             /\ At(c.parts, 0).is_integer
             /\ Len(c.parts) = 1
                   \/ (At(c.parts, 1).sep = "." /\ At(c.parts, 1).is_integer)]

\* decimal::parse
decimal_parse(c, v) == DecimalCheck(trait_parse("decimal", c, v))

\* the value of a roman digit, 0 if the character is none
RomanDigit(ch) ==
    LET u == IF IsLower(ch) THEN CharOf(Ord(ch) - 32) ELSE ch
    IN  CASE u = "I" -> 1
          [] u = "V" -> 5
          [] u = "X" -> 10
          [] u = "L" -> 50
          [] u = "C" -> 100
          [] u = "D" -> 500
          [] u = "M" -> 1000
          [] OTHER -> 0

\* the second loop of from_roman_number, idx (1-based) going down to 1
RECURSIVE RomanLoop(_, _, _, _)
RomanLoop(value, idx, result, subtract) ==
    IF idx < 1 THEN result
    ELSE LET n == RomanDigit(Chr(value, idx))
             m == RomanDigit(Chr(value, idx + 1))
         IN  IF n = m
             THEN RomanLoop(value, idx - 1,
                            IF subtract THEN U32Sub(result, n) ELSE U32Add(result, n),
                            subtract)
             ELSE IF n < m
             THEN RomanLoop(value, idx - 1, U32Sub(result, n), TRUE)
             ELSE RomanLoop(value, idx - 1, U32Add(result, n), FALSE)

\* from_roman_number
from_roman_number(value) ==
    IF value = "" THEN Zero32
    ELSE IF \E i \in 1..Len(value) : RomanDigit(Chr(value, i)) = 0 THEN Zero32
    ELSE RomanLoop(value, Len(value) - 1,
                   FromNat(RomanDigit(Chr(value, Len(value)))), FALSE)

g_thousands == <<"", "M", "MM", "MMM">>
g_hundreds == <<"", "C", "CC", "CCC", "CD", "D", "DC", "DCC", "DCCC", "CM">>
g_tens == <<"", "X", "XX", "XXX", "XL", "L", "LX", "LXX", "LXXX", "XC">>
g_units == <<"", "I", "II", "III", "IV", "V", "VI", "VII", "VIII", "IX">>

\* to_roman_number without the thousands
to_roman_number_short(value) ==
    IF value.hi # 0 \/ value.lo = 0 \/ value.lo > 3999 THEN ""
    ELSE g_hundreds[((value.lo \div 100) % 10) + 1]
            \o g_tens[((value.lo \div 10) % 10) + 1]
            \o g_units[(value.lo % 10) + 1]

\* to_roman_number
to_roman_number(value) ==
    IF value.hi # 0 \/ value.lo = 0 \/ value.lo > 3999 THEN ""
    ELSE g_thousands[(value.lo \div 1000) + 1]
            \o g_hundreds[((value.lo \div 100) % 10) + 1]
            \o g_tens[((value.lo \div 10) % 10) + 1]
            \o g_units[(value.lo % 10) + 1]

\* the body of the loop of roman::parse, value being from_roman_number of
\* the part's string
RomanValue(p, value) ==
    IF value.hi = 0 /\ value.lo >= 1 /\ value.lo <= 3999
    THEN set_type(set_integer(p, value), "R")
    ELSE p

RomanPart(p) ==
    IF p.is_integer THEN p ELSE RomanValue(p, from_roman_number(p.string))

\* the loop of roman::parse over the parts
RECURSIVE RomanLoopParts(_)
RomanLoopParts(ps) ==
    IF ps = <<>> THEN <<>>
    ELSE <<RomanPart(Head(ps))>> \o RomanLoopParts(Tail(ps))

\* roman::parse after trait::parse(v) gave c
RomanParts(c) ==
    IF ~c.ok THEN c
    ELSE [c EXCEPT !.parts = RomanLoopParts(c.parts)]

\* roman::parse
roman_parse(c, v) == RomanParts(trait_parse("roman", c, v))

\* the loop at the end of debian::parse and rpm::parse: the parts from the
\* 0-based index idx on get the type '-'
RECURSIVE MarkLoop(_, _)
MarkLoop(ps, idx) ==
    IF idx >= Len(ps) THEN ps
    ELSE MarkLoop(SetAt(ps, idx, set_type(At(ps, idx), "-")), idx + 1)

\* the end of debian::parse and rpm::parse: the parts which the revision
\* added, from the 0-based index idx on, get the type '-'
MarkRevision(c, idx) ==
    IF ~c.ok THEN c
    ELSE [c EXCEPT !.parts = MarkLoop(@, idx)]

\* the epoch of debian::parse and rpm::parse, sv being what part::set_value
\* made of the text before the colon
PushEpoch(c, sv) ==
    IF ~sv.ok THEN [c EXCEPT !.ok = FALSE, !.err = sv.err]
    ELSE IF ~sv.part.is_integer
    THEN [c EXCEPT !.ok = FALSE, !.err = "epoch must be a valid integer."]
    ELSE push_back([c EXCEPT !.ok = TRUE], set_type(sv.part, ":"))

\* debian::parse and rpm::parse from the revision on; c is what parsing the
\* upstream version gave, colon is past the epoch, dash at the revision
ParseRevision(sch, c, v, colon, dash) ==
    IF ~c.ok THEN c
    ELSE IF sch = "debian" /\ ~InRange(c.parts, IF colon = 0 THEN 0 ELSE 1)
    THEN [c EXCEPT !.ok = FALSE, !.exc = "out_of_range"]
    ELSE IF sch = "debian" /\ ~At(c.parts, IF colon = 0 THEN 0 ELSE 1).is_integer
    THEN [c EXCEPT !.ok = FALSE,
             !.err = "a debian version must always start with a number \""
                        \o v \o "\"."]
    ELSE IF dash >= Len(v) THEN c
    ELSE IF sch = "debian"
    THEN MarkRevision(parse_value("debian", "DEBIAN_REVISION", c,
                                  SubSeq(v, dash + 2, Len(v)), "-"),
                      Len(c.parts))
    ELSE MarkRevision(parse_version("rpm", "UPSTREAM", c,
                                    SubSeq(v, dash + 2, Len(v)), "-"),
                      Len(c.parts))

\* debian::parse and rpm::parse from the upstream version on; c is what
\* the epoch gave
ParseUpstream(sch, c, v, colon, dash) ==
    IF ~c.ok THEN c
    ELSE ParseRevision(sch,
                       parse_version(sch, "UPSTREAM", c, SubSeq(v, colon + 1, dash),
                                     IF colon = 0 THEN "" ELSE ":"),
                       v, colon, dash)

\* debian::parse and rpm::parse; neither clears the parts.  colon and dash
\* are the 0-based positions found by the code, -1 standing for npos
ParsePositions(sch, c, v, colon, dash) ==
    IF (colon # -1 /\ dash # -1 /\ colon >= dash) \/ colon = 0 \/ dash = 0
    THEN [c EXCEPT !.ok = FALSE, !.err =
             IF sch = "debian"
             THEN "invalid ':' and/or '-' positions in \"" \o v \o "\"."
             ELSE "position of ':' and/or '-' is invalid in \"" \o v \o "\"."]
    ELSE ParseUpstream(sch,
                       IF colon # -1
                       THEN PushEpoch(c, set_value(DefaultPart, SubSeq(v, 1, colon)))
                       ELSE [c EXCEPT !.ok = TRUE],
                       v, colon + 1, IF dash = -1 THEN Len(v) ELSE dash)

\* debian::parse
debian_parse(c, v) == ParsePositions("debian", c, v, Find(v, ":") - 1, RFind(v, "-") - 1)

\* rpm::parse
rpm_parse(c, v) == ParsePositions("rpm", c, v, Find(v, ":") - 1, RFind(v, "-") - 1)

\* the virtual call f_trait->parse(v)
parse(sch, c, v) ==
    CASE sch = "basic" -> basic_parse(c, v)
      [] sch = "decimal" -> decimal_parse(c, v)
      [] sch = "roman" -> roman_parse(c, v)
      [] sch = "debian" -> debian_parse(c, v)
      [] sch = "rpm" -> rpm_parse(c, v)
      [] OTHER -> trait_parse(sch, c, v)

-----------------------------------------------------------------------------
(* to_string.  The result is [str, err, exc]: the string returned, the     *)
(* new f_last_error and the exception raised.                              *)

Str(s, e, x) == [str |-> s, err |-> e, exc |-> x]

\* while(max > limit && at(max - 1).is_zero()) --max;
RECURSIVE TrimZeroes(_, _, _)
TrimZeroes(ps, max, limit) ==
    IF max > limit /\ is_zero(At(ps, max - 1)) THEN TrimZeroes(ps, max - 1, limit)
    ELSE max

\* the text of one part in trait::to_string and roman::to_string
PartText(sch, p) ==
    IF sch = "roman" /\ p.type = "R" THEN to_roman_number(p.integer)
    ELSE part_to_string(p)

\* the output loop of to_string: separator and text of the parts idx .. max-1
RECURSIVE JoinParts(_, _, _, _)
JoinParts(sch, ps, idx, max) ==
    IF idx >= max THEN ""
    ELSE At(ps, idx).sep \o PartText(sch, At(ps, idx)) \o JoinParts(sch, ps, idx + 1, max)

\* trait::to_string and roman::to_string
trait_to_string(sch, ps, err) ==
    LET max == TrimZeroes(ps, Len(ps), 1)
    IN  IF Len(ps) = 0 THEN Str("", "no parts to output.", "none")
        ELSE IF At(ps, 0).sep # "" THEN Str("", err, "logic_error")
        ELSE Str(JoinParts(sch, ps, 0, max)
                    \o (IF max # 1 THEN ""
                        ELSE IF Len(ps) >= 2 /\ ~At(ps, 1).is_integer THEN ".A"
                        ELSE ".0"),
                 err, "none")

\* std::setfill('0') << std::setw(width) << fraction
ZeroPad(text, width) == Repeat("0", width - Len(text)) \o text

\* decimal::to_string
decimal_to_string(ps, err) ==
    IF Len(ps) = 0 THEN Str("", "no parts to output.", "none")
    ELSE IF Len(ps) = 2 /\ ~At(ps, 1).is_integer THEN Str("", err, "wrong_type")
    ELSE IF ~At(ps, 0).is_integer THEN Str("", err, "wrong_type")
    ELSE LET fraction == IF Len(ps) = 2 THEN At(ps, 1).integer ELSE Zero32
             width == IF Len(ps) = 2 /\ At(ps, 1).width > 1 THEN At(ps, 1).width
                      ELSE 1
         IN  Str(U32Str(At(ps, 0).integer) \o "." \o ZeroPad(U32Str(fraction), width),
                 err, "none")

\* debian::to_string
debian_to_string(ps, err) ==
    LET limit == IF Len(ps) > 0 /\ At(ps, 0).type = ":" THEN 2 ELSE 1
        trimmed == TrimZeroes(ps, Len(ps), limit)
        max == IF limit + 1 > trimmed THEN limit + 1 ELSE trimmed
    IN  IF trimmed = 0 THEN Str("", "no parts to output.", "none")
        ELSE IF max > Len(ps) THEN Str("", err, "out_of_range")
        ELSE Str(JoinParts("debian", ps, 0, max), err, "none")

\* the loop of debian::prepare_next_previous and rpm::get_upstream_positions
RECURSIVE UpstreamLoop(_, _, _, _)
UpstreamLoop(ps, idx, start, end) ==
    IF idx >= Len(ps) THEN [start |-> start, end |-> end]
    ELSE IF At(ps, idx).type = ":" /\ start <= 0
    THEN UpstreamLoop(ps, idx + 1, idx + 1, end)
    ELSE IF At(ps, idx).type = "-" /\ end > idx
    THEN [start |-> start, end |-> idx]
    ELSE UpstreamLoop(ps, idx + 1, start, end)

\* debian::prepare_next_previous and rpm::get_upstream_positions:
\* [ok, start, end, err, exc]
get_upstream_positions(sch, ps, err) ==
    LET r == UpstreamLoop(ps, 0, 0, Len(ps))
    IN  IF Len(ps) = 0
        THEN [ok |-> FALSE, start |-> 0, end |-> 0, exc |-> "none", err |->
                IF sch = "debian"
                THEN "no parts in this Debian version; cannot computer next/previous."
                ELSE "no parts in this RPM version; cannot compute upstream start/end."]
        ELSE IF r.end - r.start <= 0
        THEN [ok |-> FALSE, start |-> r.start, end |-> r.end, exc |-> "logic_error",
              err |-> err]
        ELSE [ok |-> TRUE, start |-> r.start, end |-> r.end, exc |-> "none",
              err |-> err]

\* rpm::to_string
rpm_to_string(ps, err) ==
    LET u == get_upstream_positions("rpm", ps, err)
        max == TrimZeroes(ps, u.end, u.start + 2)
        epoch == IF At(ps, 0).type = ":" /\ ~is_zero(At(ps, 0))
                 THEN part_to_string(At(ps, 0)) \o ":"
                 ELSE ""
    IN  IF Len(ps) = 0 THEN Str("", "no parts to output.", "none")
        ELSE IF u.exc # "none" THEN Str("", err, u.exc)
        ELSE Str(epoch
                    \o part_to_string(At(ps, u.start))
                    \o JoinParts("rpm", ps, u.start + 1, max)
                    \o (IF max - u.start = 1 THEN ".0" ELSE "")
                    \o JoinParts("rpm", ps, u.end, Len(ps)),
                 err, "none")

\* the virtual call f_trait->to_string()
to_string(sch, ps, err) ==
    CASE sch = "decimal" -> decimal_to_string(ps, err)
      [] sch = "debian" -> debian_to_string(ps, err)
      [] sch = "rpm" -> rpm_to_string(ps, err)
      [] OTHER -> trait_to_string(sch, ps, err)

-----------------------------------------------------------------------------
(* compare.  The result is [st, r]: st is "ok" and r the value returned,   *)
(* or st names the exception raised, or st is "hang" when the call never   *)
(* returns.                                                                *)

Ret(v) == [st |-> "ok", r |-> v]
Raise(x) == [st |-> x, r |-> 0]
Hang == [st |-> "hang", r |-> 0]

\* the loop of trait::compare from the 0-based index idx on
RECURSIVE TraitCompareLoop(_, _, _)
TraitCompareLoop(l, r, idx) ==
    IF idx >= Len(l) /\ idx >= Len(r) THEN 0
    ELSE IF idx >= Len(l)
    THEN IF ~is_zero(At(r, idx)) THEN -1 ELSE TraitCompareLoop(l, r, idx + 1)
    ELSE IF idx >= Len(r)
    THEN IF ~is_zero(At(l, idx)) THEN 1 ELSE TraitCompareLoop(l, r, idx + 1)
    ELSE LET v == part_compare(At(l, idx), At(r, idx))
         IN  IF v # 0 THEN v ELSE TraitCompareLoop(l, r, idx + 1)

\* trait::compare
trait_compare(l, r) ==
    IF Len(l) = 0 \/ Len(r) = 0 THEN Raise("empty_version")
    ELSE Ret(TraitCompareLoop(l, r, 0))

\* compare_characters of debian.cpp
debian_compare_characters(a, b) ==
    IF a = b THEN 0
    ELSE IF a = "" THEN (IF b = "~" THEN 1 ELSE -1)
    ELSE IF b = "" THEN (IF a = "~" THEN -1 ELSE 1)
    ELSE IF IsLetter(a)
    THEN IF IsLower(b) /\ IsUpper(b)
         THEN (IF Ord(a) < Ord(b) THEN -1 ELSE IF Ord(a) > Ord(b) THEN 1 ELSE 0)
         ELSE (IF b = "~" THEN 1 ELSE -1)
    ELSE IF IsLetter(b) THEN (IF a = "~" THEN -1 ELSE 1)
    ELSE IF a = "~" THEN -1
    ELSE IF b = "~" THEN 1
    ELSE IF Ord(a) < Ord(b) THEN -1
    ELSE IF Ord(a) > Ord(b) THEN 1
    ELSE 0

\* the loop of compare_strings of debian.cpp, idx 1-based
RECURSIVE DebianCompareStringsLoop(_, _, _)
DebianCompareStringsLoop(lhs, rhs, idx) ==
    IF idx > Len(lhs) /\ idx > Len(rhs) THEN 0
    ELSE LET a == IF idx > Len(lhs) THEN "" ELSE Chr(lhs, idx)
             b == IF idx > Len(rhs) THEN "" ELSE Chr(rhs, idx)
             v == debian_compare_characters(a, b)
         IN  IF v # 0 THEN v ELSE DebianCompareStringsLoop(lhs, rhs, idx + 1)

debian_compare_strings(lhs, rhs) == DebianCompareStringsLoop(lhs, rhs, 1)

\* (int)a compared with (int)b: lint != rint, lint < rint ? -1 : 1
IntCompare(a, b) == IF a = b THEN 0 ELSE IF IntLess(a, b) THEN -1 ELSE 1

\* the two nested loops of debian::compare.  One call is one iteration of
\* the inner loop; idle counts the iterations made in a row that moved
\* neither lpos nor rpos.  After two of them, one for each value of
\* handle_strings, the loop is back in the very same state and never ends.
RECURSIVE DebianWalk(_, _, _, _, _, _, _)
DebianWalk(l, r, type, lpos, rpos, handle_strings, idle) ==
    LET ltake == /\ lpos < Len(l)
                 /\ At(l, lpos).type = type
                 /\ handle_strings # At(l, lpos).is_integer
        rtake == /\ rpos < Len(r)
                 /\ At(r, rpos).type = type
                 /\ handle_strings # At(r, rpos).is_integer
        lstr == IF ltake /\ handle_strings THEN At(l, lpos).string ELSE ""
        rstr == IF rtake /\ handle_strings THEN At(r, rpos).string ELSE ""
        lint == IF ltake /\ ~handle_strings THEN At(l, lpos).integer ELSE Zero32
        rint == IF rtake /\ ~handle_strings THEN At(r, rpos).integer ELSE Zero32
        v == IF handle_strings THEN debian_compare_strings(lstr, rstr)
             ELSE IntCompare(lint, rint)
        lpos1 == IF ltake THEN lpos + 1 ELSE lpos
        rpos1 == IF rtake THEN rpos + 1 ELSE rpos
    IN  IF lpos >= Len(l) /\ rpos >= Len(l)
        THEN \* break: the end of both lists, as the code tests it
             IF type = "-" THEN Ret(0)
             ELSE DebianWalk(l, r, "-", lpos, rpos, TRUE, 0)
        ELSE IF v # 0 THEN Ret(v)
        ELSE IF ~ltake /\ ~rtake /\ idle >= 1 THEN Hang
        ELSE DebianWalk(l, r, type, lpos1, rpos1, ~handle_strings,
                        IF ltake \/ rtake THEN 0 ELSE idle + 1)

\* debian::compare (both sides are debian versions)
debian_compare(l, r) ==
    IF Len(l) = 0 \/ Len(r) = 0 THEN Raise("empty_version")
    ELSE LET lhas == At(l, 0).type = ":"
             rhas == At(r, 0).type = ":"
             lepoch == IF lhas THEN At(l, 0).integer ELSE Zero32
             repoch == IF rhas THEN At(r, 0).integer ELSE Zero32
         IN  IF (lhas /\ ~At(l, 0).is_integer) \/ (rhas /\ ~At(r, 0).is_integer)
             THEN Raise("wrong_type")
             ELSE IF lepoch # repoch THEN Ret(IntCompare(lepoch, repoch))
             ELSE DebianWalk(l, r, "", IF lhas THEN 1 ELSE 0,
                             IF rhas THEN 1 ELSE 0, TRUE, 0)

\* g_supported_characters of rpm_order.cpp; the NUL character is entry 2
g_supported_characters ==
    "~ +ABCDEFGHIJKLMNOPQRSTUVWXYZabcdefghijklmnopqrstuvwxyz^"

\* g_rpm_compare_characters[c]: the 1-based place of c in
\* g_supported_characters, 0 if it is not there
RpmOrder(c) ==
    IF c = "" THEN 2
    ELSE IF c = " " THEN 0
    ELSE Find(g_supported_characters, c)

\* compare_characters of rpm.cpp
rpm_compare_characters(a, b) ==
    LET v == RpmOrder(a) - RpmOrder(b)
    IN  IF v = 0 THEN 0 ELSE IF v < 0 THEN -1 ELSE 1

\* the do/while of rpm.cpp's compare_strings reading the next character of
\* s that is no '_': [ch, idx], idx 0-based
RECURSIVE RpmNextChar(_, _, _)
RpmNextChar(s, idx, a) ==
    LET a1 == IF idx < Len(s) THEN Chr(s, idx + 1) ELSE a
    IN  IF a1 = "_" /\ idx + 1 < Len(s) THEN RpmNextChar(s, idx + 1, a1)
        ELSE [ch |-> IF a1 = "_" THEN "" ELSE a1, idx |-> idx + 1]

\* the while loop of rpm.cpp's compare_strings
RECURSIVE RpmCompareStringsLoop(_, _, _, _)
RpmCompareStringsLoop(lhs, rhs, lidx, ridx) ==
    LET max == IF Len(lhs) > Len(rhs) THEN Len(lhs) ELSE Len(rhs)
        a == RpmNextChar(lhs, lidx, "")
        b == RpmNextChar(rhs, ridx, "")
        v == rpm_compare_characters(a.ch, b.ch)
    IN  IF ~(lidx < max \/ ridx < max) THEN 0
        ELSE IF v # 0 THEN v
        ELSE RpmCompareStringsLoop(lhs, rhs, a.idx, b.idx)

rpm_compare_strings(lhs, rhs) == RpmCompareStringsLoop(lhs, rhs, 0, 0)

\* the two nested loops of rpm::compare; one call is one iteration of the
\* inner loop
RECURSIVE RpmWalk(_, _, _, _, _)
RpmWalk(l, r, type, lpos, rpos) ==
    LET ltake == lpos < Len(l) /\ At(l, lpos).type = type
        rtake == rpos < Len(r) /\ At(r, rpos).type = type
        linteger == ltake /\ At(l, lpos).is_integer
        rinteger == rtake /\ At(r, rpos).is_integer
        lint == IF linteger THEN At(l, lpos).integer ELSE Zero32
        rint == IF rinteger THEN At(r, rpos).integer ELSE Zero32
        lstr == IF ltake /\ ~linteger THEN At(l, lpos).string ELSE ""
        rstr == IF rtake /\ ~rinteger THEN At(r, rpos).string ELSE ""
        v == IF linteger = rinteger
             THEN IF linteger THEN IntCompare(lint, rint)
                  ELSE rpm_compare_strings(lstr, rstr)
             ELSE IF linteger
             THEN (IF lint # Zero32 \/ rstr # "" THEN 1 ELSE 0)
             ELSE (IF rint # Zero32 \/ lstr # "" THEN -1 ELSE 0)
    IN  IF ~ltake /\ ~rtake
        THEN IF type = "-" THEN Ret(0)
             ELSE RpmWalk(l, r, "-", lpos, rpos)
        ELSE IF v # 0 THEN Ret(v)
        ELSE RpmWalk(l, r, type, IF ltake THEN lpos + 1 ELSE lpos,
                     IF rtake THEN rpos + 1 ELSE rpos)

\* rpm::compare going by the default compare of the trait
rpm_compare_as_trait(l, r) == trait_compare(l, r)

\* rpm::compare (both sides are rpm versions)
rpm_compare(l, r) ==
    IF Len(l) = 0 \/ Len(r) = 0 THEN Raise("empty_version")
    ELSE LET lhas == At(l, 0).type = ":"
             rhas == At(r, 0).type = ":"
             lepoch == IF lhas THEN At(l, 0).integer ELSE Zero32
             repoch == IF rhas THEN At(r, 0).integer ELSE Zero32
         IN  IF (lhas /\ ~At(l, 0).is_integer) \/ (rhas /\ ~At(r, 0).is_integer)
             THEN Raise("wrong_type")
             ELSE IF lepoch # repoch THEN Ret(IntCompare(lepoch, repoch))
             ELSE RpmWalk(l, r, "", IF lhas THEN 1 ELSE 0, IF rhas THEN 1 ELSE 0)

\* the virtual call f_trait->compare(rhs), both versions of the same scheme
trait_dispatch_compare(sch, l, r) ==
    CASE sch = "debian" -> debian_compare(l, r)
      [] sch = "rpm" -> rpm_compare(l, r)
      [] OTHER -> trait_compare(l, r)

\* versiontheca::compare: lv and rv are the two f_valid
compare(sch, l, lv, r, rv) ==
    IF ~lv \/ ~rv THEN Raise("invalid_version")
    ELSE trait_dispatch_compare(sch, l, r)

-----------------------------------------------------------------------------
(* next and previous.  A format is the list of parts of the version given  *)
(* to set_format; the empty list stands for the null pointer, which the    *)
(* code treats the same way.                                               *)

\* trait::get_format_part
get_format_part(fmt, pos, integer) ==
    IF pos >= 0 /\ pos < Len(fmt) THEN At(fmt, pos)
    ELSE IF integer
    THEN IF pos # 0 THEN set_separator(set_to_max_integer(DefaultPart), ".")
         ELSE set_to_max_integer(DefaultPart)
    ELSE set_to_max_string(DefaultPart, 1)

\* the part that next() adds for the format part f
NewPart(f) ==
    IF f.is_integer THEN set_separator(DefaultPart, f.sep)
    ELSE set_separator(set_string(DefaultPart, Repeat("A", Len(f.string))), f.sep)

\* the do/while of trait::next adding the missing parts
RECURSIVE TraitPad(_, _, _)
TraitPad(ps, pos, fmt) ==
    IF pos < Len(ps) THEN ps
    ELSE TraitPad(Append(ps, NewPart(get_format_part(fmt, Len(ps), TRUE))), pos, fmt)

\* the for(;;) of trait::next: [ok, parts, pos]
RECURSIVE TraitNextLoop(_, _, _)
TraitNextLoop(ps, pos, fmt) ==
    LET p == At(ps, pos)
    IN  IF part_compare(p, get_format_part(fmt, pos, p.is_integer)) = 0
        THEN IF pos = 0 THEN [ok |-> FALSE, parts |-> ps, pos |-> pos]
             ELSE TraitNextLoop(erase(Ctx(TRUE, ps, "", "none"), pos).parts,
                                pos - 1, fmt)
        ELSE [ok |-> TRUE, parts |-> SetAt(ps, pos, part_next(p).part), pos |-> pos]

\* trait::next
trait_next(ps, err, pos, fmt) ==
    IF pos < 0 \/ pos >= MAX_PARTS THEN Ctx(FALSE, ps, err, "invalid_parameter")
    ELSE LET l == TraitNextLoop(TraitPad(ps, pos, fmt), pos, fmt)
             keep == l.pos = 0 /\ Len(l.parts) >= 2 /\ At(l.parts, 1).is_integer
             ps1 == IF keep THEN SetAt(l.parts, 1, set_integer(At(l.parts, 1), Zero32))
                    ELSE l.parts
             pos1 == IF keep THEN l.pos + 1 ELSE l.pos
         IN  IF ~l.ok
             THEN Ctx(FALSE, l.parts,
                      "maximum limit reached; cannot increment version any further.",
                      "none")
             ELSE Ctx(TRUE, SubSeq(ps1, 1, pos1 + 1), err, "none")

\* the do/while of trait::previous adding the missing parts
RECURSIVE TraitPadZero(_, _)
TraitPadZero(ps, pos) ==
    IF pos < Len(ps) THEN ps
    ELSE TraitPadZero(Append(ps, set_separator(DefaultPart, ".")), pos)

\* the while loop of trait::previous dropping the trailing zeroes
RECURSIVE TraitDropZeroes(_, _)
TraitDropZeroes(ps, pos) ==
    IF pos > 1 /\ is_zero(At(ps, pos)) /\ pos + 1 = Len(ps)
    THEN TraitDropZeroes(SubSeq(ps, 1, pos), pos - 1)
    ELSE ps

\* the for(;;) of trait::previous: [ok, parts]
RECURSIVE TraitPreviousLoop(_, _, _)
TraitPreviousLoop(ps, pos, fmt) ==
    LET p == At(ps, pos)
    IN  IF is_zero(p)
        THEN IF pos = 0 THEN [ok |-> FALSE, parts |-> ps]
             ELSE TraitPreviousLoop(
                      SetAt(ps, pos, get_format_part(fmt, pos, p.is_integer)),
                      pos - 1, fmt)
        ELSE [ok |-> TRUE,
              parts |-> TraitDropZeroes(SetAt(ps, pos, part_previous(p).part), pos)]

\* trait::previous
trait_previous(ps, err, pos, fmt) ==
    IF pos < 0 \/ pos >= MAX_PARTS THEN Ctx(FALSE, ps, err, "invalid_parameter")
    ELSE LET l == TraitPreviousLoop(TraitPadZero(ps, pos), pos, fmt)
         IN  IF ~l.ok
             THEN Ctx(FALSE, l.parts,
                      "minimum limit reached; cannot decrement version any further.",
                      "none")
             ELSE Ctx(TRUE, l.parts, err, "none")

\* the do/while of debian::next, debian::previous, rpm::next and
\* rpm::previous inserting the missing upstream parts at end: [c, end]
RECURSIVE UpstreamPad(_, _, _, _, _)
UpstreamPad(sch, c, pos, end, fmt) ==
    IF c.exc # "none" \/ end > pos THEN [c |-> c, end |-> end]
    ELSE UpstreamPad(sch,
                     insert(c, end,
                            IF sch = "debian" THEN set_separator(DefaultPart, ".")
                            ELSE NewPart(get_format_part(fmt, end, TRUE))),
                     pos, end + 1, fmt)

\* the for(;;) of debian::next and rpm::next: [c, pos, end], c.ok FALSE when
\* the function returns false
RECURSIVE UpstreamNextLoop(_, _, _, _, _)
UpstreamNextLoop(c, pos, end, start, fmt) ==
    IF ~InRange(c.parts, pos)
    THEN [c |-> [c EXCEPT !.ok = FALSE, !.exc = "out_of_range"],
          pos |-> pos, end |-> end]
    ELSE LET p == At(c.parts, pos)
         IN  IF part_compare(p, get_format_part(fmt, pos, p.is_integer)) = 0
             THEN \* static_cast<std::size_t>(pos - 1) <= start
                  IF pos - 1 >= 0 /\ pos - 1 <= start
                  THEN [c |-> [c EXCEPT !.ok = FALSE, !.err =
                          "maximum limit reached; cannot increment version any further."],
                        pos |-> pos, end |-> end]
                  ELSE UpstreamNextLoop(erase(c, pos), pos - 1, end - 1, start, fmt)
             ELSE [c |-> [c EXCEPT !.parts = SetAt(@, pos, part_next(p).part)],
                   pos |-> pos, end |-> end]

\* the end of debian::next and rpm::next, from the comment "keep part one"
UpstreamNextTail(c, pos, end) ==
    LET keep == pos = 0 /\ Len(c.parts) >= 2 /\ At(c.parts, 1).is_integer
        ps1 == IF keep THEN SetAt(c.parts, 1, set_integer(At(c.parts, 1), Zero32))
               ELSE c.parts
        pos2 == (IF keep THEN pos + 1 ELSE pos) + 1
    IN  IF pos2 < end
        THEN [c EXCEPT !.parts = SubSeq(ps1, 1, pos2) \o SubSeq(ps1, end + 1, Len(ps1))]
        ELSE [c EXCEPT !.parts = ps1]

\* debian::next and rpm::next
upstream_next(sch, ps, err, pos, fmt) ==
    IF pos < 0 \/ pos >= MAX_PARTS THEN Ctx(FALSE, ps, err, "invalid_parameter")
    ELSE LET u == get_upstream_positions(sch, ps, err)
             pad == UpstreamPad(sch, Ctx(TRUE, ps, err, "none"), pos + u.start,
                                u.end, fmt)
             l == UpstreamNextLoop(pad.c, pos + u.start, pad.end, u.start, fmt)
         IN  IF ~u.ok THEN Ctx(FALSE, ps, u.err, u.exc)
             ELSE IF pad.c.exc # "none" THEN pad.c
             ELSE IF l.c.exc # "none" \/ ~l.c.ok THEN l.c
             ELSE UpstreamNextTail(l.c, l.pos, l.end)

\* the while loop of debian::previous and rpm::previous erasing the
\* trailing zeroes
RECURSIVE UpstreamDropZeroes(_, _, _)
UpstreamDropZeroes(c, pos, end) ==
    IF ~InRange(c.parts, pos) THEN [c EXCEPT !.ok = FALSE, !.exc = "out_of_range"]
    ELSE IF is_zero(At(c.parts, pos)) /\ pos + 1 = end
    THEN UpstreamDropZeroes(erase(c, pos), pos - 1, end - 1)
    ELSE c

\* the for(;;) of debian::previous and rpm::previous
RECURSIVE UpstreamPreviousLoop(_, _, _, _, _, _)
UpstreamPreviousLoop(sch, c, pos, end, start, fmt) ==
    IF ~InRange(c.parts, pos) THEN [c EXCEPT !.ok = FALSE, !.exc = "out_of_range"]
    ELSE LET p == At(c.parts, pos)
             f == get_format_part(fmt, pos, p.is_integer)
             v == IF f.is_integer THEN set_integer(p, f.integer)
                  ELSE set_string(p, f.string)
             q == IF sch = "rpm" THEN set_separator(v, f.sep) ELSE v
         IN  IF is_zero(p)
             THEN IF pos <= start
                  THEN [c EXCEPT !.ok = FALSE, !.err =
                          "minimum limit reached; cannot decrement version any further."]
                  ELSE UpstreamPreviousLoop(sch, [c EXCEPT !.parts = SetAt(@, pos, q)],
                                            pos - 1, end, start, fmt)
             ELSE UpstreamDropZeroes(
                      [c EXCEPT !.parts = SetAt(@, pos, part_previous(p).part)],
                      pos, end)

\* debian::previous and rpm::previous
upstream_previous(sch, ps, err, pos, fmt) ==
    IF pos < 0 \/ pos >= MAX_PARTS THEN Ctx(FALSE, ps, err, "invalid_parameter")
    ELSE LET u == get_upstream_positions(sch, ps, err)
             pad == UpstreamPad(sch, Ctx(TRUE, ps, err, "none"), pos + u.start,
                                u.end, fmt)
         IN  IF ~u.ok THEN Ctx(FALSE, ps, u.err, u.exc)
             ELSE IF pad.c.exc # "none" THEN pad.c
             ELSE UpstreamPreviousLoop(sch, pad.c, pos + u.start, pad.end,
                                       u.start, fmt)

\* the virtual call f_trait->next(pos, f_format)
trait_dispatch_next(sch, ps, err, pos, fmt) ==
    IF sch \in {"debian", "rpm"} THEN upstream_next(sch, ps, err, pos, fmt)
    ELSE trait_next(ps, err, pos, fmt)

\* the virtual call f_trait->previous(pos, f_format)
trait_dispatch_previous(sch, ps, err, pos, fmt) ==
    IF sch \in {"debian", "rpm"} THEN upstream_previous(sch, ps, err, pos, fmt)
    ELSE trait_previous(ps, err, pos, fmt)

-----------------------------------------------------------------------------
(* class versiontheca.  A version object is [parts, valid, last_error]; a  *)
(* call on it gives the object afterwards and exc, the exception raised.   *)

NewObject == [parts |-> <<>>, valid |-> FALSE, last_error |-> "", exc |-> "none"]

\* a set_version, next or previous that keeps the parts when the trait
\* returned false
AfterStepKept(o, c) ==
    [parts |-> c.parts, valid |-> IF c.exc # "none" THEN o.valid ELSE c.ok,
     last_error |-> c.err, exc |-> c.exc]

\* versiontheca::set_version, next and previous on the object o, c being
\* what the trait's parse, next or previous did: its value goes to
\* f_valid and a false clears the parts; an exception leaves f_valid alone
\* and the parts as they were when it was raised
AfterStep(o, c) ==
    IF c.exc # "none"
    THEN [parts |-> c.parts, valid |-> o.valid, last_error |-> c.err, exc |-> c.exc]
    ELSE [parts |-> IF c.ok THEN c.parts ELSE <<>>, valid |-> c.ok,
          last_error |-> c.err, exc |-> "none"]

\* versiontheca::set_version
set_version(sch, o, v) ==
    AfterStep(o, parse(sch, Ctx(TRUE, o.parts, o.last_error, "none"), v))

\* versiontheca::versiontheca(t, v) with a new trait t
Construct(sch, v) == IF v = "" THEN NewObject ELSE set_version(sch, NewObject, v)

next(sch, o, pos, fmt) ==
    AfterStep(o, trait_dispatch_next(sch, o.parts, o.last_error, pos, fmt))

previous(sch, o, pos, fmt) ==
    AfterStep(o, trait_dispatch_previous(sch, o.parts, o.last_error, pos, fmt))

\* versiontheca::get_version
get_version(sch, o) == to_string(sch, o.parts, o.last_error)

\* the parts ps followed by new parts up to the 0-based index
RECURSIVE Padded(_, _)
Padded(ps, index) ==
    IF Len(ps) >= index THEN ps ELSE Padded(Append(ps, DefaultPart), index)

\* the body shared by set_major, set_minor, set_patch and set_build: a new
\* part holding the value replaces the part at the index, or is pushed
\* after the new parts that fill the version up to the index
set_part(o, index, value) ==
    LET p == set_integer(DefaultPart, value)
    IN  [o EXCEPT !.parts = IF Len(o.parts) >= index + 1
                            THEN SetAt(o.parts, index, p)
                            ELSE Append(Padded(o.parts, index), p)]

\* versiontheca::set_major, set_minor, set_patch and set_build
set_major(o, value) == set_part(o, 0, value)

set_minor(o, value) == set_part(o, 1, value)

set_patch(o, value) == set_part(o, 2, value)

set_build(o, value) == set_part(o, 3, value)

\* the body shared by get_major, get_minor, get_patch and get_build
get_part(o, index) ==
    IF Len(o.parts) < index + 1 THEN Zero32
    ELSE IF ~At(o.parts, index).is_integer THEN Zero32
    ELSE At(o.parts, index).integer

\* versiontheca::get_major, get_minor, get_patch and get_build
get_major(o) == get_part(o, 0)

get_minor(o) == get_part(o, 1)

get_patch(o) == get_part(o, 2)

get_build(o) == get_part(o, 3)

-----------------------------------------------------------------------------------------------------------------------------------------
(* Bounds and inputs *)

\* positions 0 .. MaxPos, and the last position MAX_PARTS - 1
MaxPos == 2

\* calls of next, previous or set_version made on one version
MaxCalls == 2

Positions == (0..MaxPos) \cup {MAX_PARTS - 1}

\* the version strings given to the constructor and to set_version
Inputs(sch) ==
    CASE sch = "basic" ->
            {"0.0", "1.0", "3", "1.3.2", "1.9", "4294967295",
             "1.4294967295", "1.x", "1.0.0.0"}
      [] sch = "decimal" ->
            {"0", "3.14", "3.014", "1.0", "1.9", "4294967295",
             "1.4294967295", "1.2.3"}
      [] sch = "roman" ->
            {"0.0", "1.0", "IV.3", "III", "1.iv", "MMMCMXCIX.9",
             "1.4294967295", "1.-"}
      [] sch = "unicode" ->
            {"0.0", "1.0", "1.a", "1.z", "1.zz", "1.3.2", "1.9",
             "1.4294967295", "1..2"}
      [] OTHER ->
            {"0.0", "0.1", "1.0", "3", "1.3.2", "1.9", "4294967295",
             "1.4294967295", "1:0", "5:1.5.3-r5", "1.0a", "1:",
             "3-5", "1.0.0.0", "0:2.71.3z-rc32.5", "0:2.71:3z"}

\* the version strings of the formats given to set_format
FormatInputs == {"9.9"}

\* a version string of MAX_PARTS + 1 parts
TooMany == "1" \o Repeat(".1", MAX_PARTS)

\* the version strings given to set_version: those given to the
\* constructor, one with too many parts and two with too large a number
SetInputs(sch) == Inputs(sch) \cup {TooMany, "4294967296", "9999999999"}

\* the versions handed to compare
Objs == {"a", "b", "c"}

CmpInputs(sch) ==
    CASE sch = "basic" -> {"1.2", "1.2.0", "1.10", "2", "0.9.9", "1.x"}
      [] sch = "decimal" -> {"3.14", "3.014", "3.2", "3", "10.0", "1.2.3"}
      [] sch = "roman" -> {"IV.3", "4.3", "III", "3.1", "X", "1.-"}
      [] sch = "unicode" -> {"1.a", "1.b", "1.10", "1.9", "1.B", "1.0", "1..2"}
      [] OTHER ->
            {"1.1", "1.1-alpha", "1.1-rc1", "1.1-rc2", "1.1~before", "1:1.1",
             "999.0", "2147483648:1.1", "1.0a", "1.0b"}

NoOut == [set |-> FALSE, str |-> ""]
Unset == [st |-> "unset", r |-> 0]
Pairs == {p \in Objs \X Objs : p[1] # p[2]}

\* the version o constructed from the string text
Named(text, o) ==
    [text |-> text, parts |-> o.parts, valid |-> o.valid,
     last_error |-> o.last_error, exc |-> o.exc]

\* the version under test as an object
Self == [parts |-> parts, valid |-> valid, last_error |-> last_error]

\* one call recorded in hist: the call, its position or text, what it
\* returned and raised and the f_last_error it left, the version and the
\* format it was made with, and the parts it left
Call(op, pos, text, o) ==
    [op |-> op, pos |-> pos, text |-> text, ok |-> o.valid, exc |-> o.exc,
     err |-> o.last_error, pre |-> parts, was_valid |-> valid, fmt |-> format,
     post |-> o.parts]

-----------------------------------------------------------------------------
(* The version under test: constructed from an input, then next, previous, *)
(* set_format and get_version.                                             *)

\* the version under test is the object o
Is(o) ==
    /\ parts = o.parts
    /\ valid = o.valid
    /\ last_error = o.last_error
    /\ exc = o.exc

\* the state of the version under test after a call left it as o
Becomes(o) ==
    /\ parts' = o.parts
    /\ valid' = o.valid
    /\ last_error' = o.last_error
    /\ exc' = o.exc
    /\ out' = NoOut

\* the call that left the version under test as o is recorded
Called(op, pos, text, o) ==
    /\ Becomes(o)
    /\ hist' = Append(hist, Call(op, pos, text, o))

\* get_version() returned or raised s
Returned(s) ==
    /\ out' = IF s.exc = "none" THEN [set |-> TRUE, str |-> s.str] ELSE NoOut
    /\ last_error' = s.err
    /\ exc' = s.exc

\* the version under test was constructed from an input
Init ==
    /\ scheme \in Schemes
    /\ \E v \in Inputs(scheme) :
           /\ Is(Construct(scheme, v))
           /\ built = [text |-> v, canonical |-> FALSE]
    /\ format = <<>>
    /\ out = NoOut
    /\ hist = <<>>
    /\ objs = [x \in Objs |-> Named("", NewObject)]
    /\ cmp = [p \in Pairs |-> Unset]

\* the parts of the version of each scheme constructed from each text
\* of FormatInputs
FormatParts ==
    [sch \in Schemes |-> [text \in FormatInputs |-> Construct(sch, text).parts]]

\* whether a new version of each scheme constructed from each text given
\* to set_version is valid
InputValid ==
    [sch \in Schemes |-> [text \in SetInputs(sch) |-> Construct(sch, text).valid]]

\* set_format(f), f a version of the same scheme constructed from the
\* text; the format is set before the first call of next or previous
SetFormat(text) ==
    /\ hist = <<>>
    /\ format' = FormatParts[scheme][text]
    /\ format' # format
    /\ exc' = "none"
    /\ out' = NoOut
    /\ UNCHANGED <<scheme, parts, valid, last_error, hist, built, objs, cmp>>

GetVersion ==
    /\ Returned(get_version(scheme, Self))
    /\ UNCHANGED <<scheme, parts, valid, format, hist, built, objs, cmp>>

DoNext(pos) ==
    /\ Len(hist) < MaxCalls
    /\ Called("next", pos, "", next(scheme, Self, pos, format))
    /\ UNCHANGED <<scheme, format, built, objs, cmp>>

DoPrevious(pos) ==
    /\ Len(hist) < MaxCalls
    /\ Called("previous", pos, "", previous(scheme, Self, pos, format))
    /\ UNCHANGED <<scheme, format, built, objs, cmp>>

Next ==
    \/ \E text \in FormatInputs : SetFormat(text)
    \/ GetVersion
    \/ \E pos \in Positions : DoNext(pos)
    \/ \E pos \in Positions : DoPrevious(pos)

Spec == Init /\ [][Next]_vars

-----------------------------------------------------------------------------
(* Parsing and printing: set_version on a version that already holds one,  *)
(* get_version, and a new version constructed from the string returned.    *)

SetVersion(v) ==
    /\ Len(hist) < MaxCalls
    /\ Called("set_version", 0, v, set_version(scheme, Self, v))
    /\ UNCHANGED <<scheme, format, built, objs, cmp>>

\* a new version is constructed from the string that get_version() just
\* returned for a valid version constructed from an input
Rebuild ==
    /\ out.set /\ valid /\ hist = <<>> /\ ~built.canonical
    /\ Becomes(Construct(scheme, out.str))
    /\ built' = [text |-> out.str, canonical |-> TRUE]
    /\ UNCHANGED <<scheme, format, hist, objs, cmp>>

NextSet ==
    \/ \E v \in SetInputs(scheme) : SetVersion(v)
    \/ GetVersion
    \/ Rebuild

SpecSet == Init /\ [][NextSet]_vars

-----------------------------------------------------------------------------
(* next, previous and set_version on the same version.                     *)

\* the version strings given to set_version between the calls of next and
\* previous: a valid one and the one of Inputs that is not valid
RetryInputs(sch) == {"1.0"} \cup (Inputs(sch) \cap {"1.x", "1.2.3", "1.-", "1..2", "1:"})

NextCalls ==
    \/ \E pos \in Positions : DoNext(pos)
    \/ \E pos \in Positions : DoPrevious(pos)
    \/ \E v \in RetryInputs(scheme) : SetVersion(v)

SpecCalls == Init /\ [][NextCalls]_vars

-----------------------------------------------------------------------------
(* Three versions and compare *)

InitCmp ==
    /\ scheme \in Schemes
    /\ parts = NewObject.parts
    /\ valid = NewObject.valid
    /\ last_error = NewObject.last_error
    /\ format = <<>>
    /\ exc = "none"
    /\ out = NoOut
    /\ hist = <<>>
    /\ built = [text |-> "", canonical |-> FALSE]
    /\ \E t \in [Objs -> CmpInputs(scheme)] :
           objs = [x \in Objs |-> Named(t[x], Construct(scheme, t[x]))]
    /\ cmp = [p \in Pairs |-> Unset]

\* objs[x].compare(objs[y])
Compare(x, y) ==
    /\ cmp[<<x, y>>] = Unset
    /\ cmp' = [cmp EXCEPT ![<<x, y>>] =
                  compare(scheme, objs[x].parts, objs[x].valid,
                          objs[y].parts, objs[y].valid)]
    /\ UNCHANGED <<scheme, parts, valid, last_error, format, exc, out, hist,
                   built, objs>>

NextCmp == \E p \in Pairs : Compare(p[1], p[2])

SpecCmp == InitCmp /\ [][NextCmp]_vars

-----------------------------------------------------------------------------
(* Properties of compare, stated on the three versions of SpecCmp.         *)

\* the same two versions in the other argument order
Rev(p) == <<p[2], p[1]>>

BothValid(p) == objs[p[1]].valid /\ objs[p[2]].valid

\* the call compare of the pair p was made and returned a value
Compared(p) == cmp[p].st = "ok"

\* the call compare of the pair p was made
Asked(p) == cmp[p] # Unset

Sign(n) == IF n < 0 THEN -1 ELSE IF n > 0 THEN 1 ELSE 0

\* C1: for every scheme and every two valid versions a and b of it,
\* compare(a, b) is one of -1, 0, 1 and compare(a, b) = -compare(b, a).
C1_Antisymmetry ==
    \A p \in Pairs :
        (BothValid(p) /\ Compared(p) /\ Compared(Rev(p)))
            => (cmp[p].r \in {-1, 0, 1} /\ cmp[p].r = -cmp[Rev(p)].r)

\* C2: for every scheme and all valid versions x, y, z of it, compare(x, y) < 0
\* and compare(y, z) < 0 give compare(x, z) < 0.
C2_Transitivity ==
    \A x \in Objs : \A y \in Objs \ {x} : \A z \in Objs \ {x, y} :
        (/\ objs[x].valid /\ objs[y].valid /\ objs[z].valid
         /\ Compared(<<x, y>>) /\ Compared(<<y, z>>) /\ Compared(<<x, z>>)
         /\ cmp[<<x, y>>].r < 0 /\ cmp[<<y, z>>].r < 0)
            => cmp[<<x, z>>].r < 0

\* the epoch of a Debian or RPM version: part 0 when its type is ':', and
\* 0 when the version has none
Epoch(ps) == IF ps # <<>> /\ At(ps, 0).type = ":" THEN At(ps, 0).integer ELSE Zero32

SameEpoch(p) == Epoch(objs[p[1]].parts) = Epoch(objs[p[2]].parts)

\* the parts of a Debian or RPM version without its revision
WithoutRevision(ps) == SubSeq(ps, 1, get_upstream_positions(scheme, ps, "").end)

\* what compare gives for the pair p once the revisions are taken away
UpstreamResult(p) ==
    compare(scheme, WithoutRevision(objs[p[1]].parts), TRUE,
            WithoutRevision(objs[p[2]].parts), TRUE)

\* versions with the same upstream section, in increasing order
Chain == <<"1.1", "1.1-alpha", "1.1-rc1", "1.1-rc2">>

InChain(t) == \E i \in 1..Len(Chain) : Chain[i] = t

Rank(t) == CHOOSE i \in 1..Len(Chain) : Chain[i] = t

UpstreamDecides(p, u) == (u.st = "ok" /\ u.r # 0) => cmp[p] = u

ChainOrdered(p, s, t) ==
    (InChain(s) /\ InChain(t)) => cmp[p] = Ret(Sign(Rank(s) - Rank(t)))

\* C4: for Debian and RPM versions with equal epochs, upstream sections
\* that differ decide the result alone, and with equal upstream sections
\* the revisions decide, a missing revision being the smallest:
\* 1.1 < 1.1-alpha < 1.1-rc1 < 1.1-rc2 in both argument orders.
C4_RevisionAfterUpstream ==
    scheme \in {"debian", "rpm"} =>
        \A p \in Pairs :
            (BothValid(p) /\ SameEpoch(p) /\ Asked(p))
                => /\ UpstreamDecides(p, UpstreamResult(p))
                   /\ ChainOrdered(p, objs[p[1]].text, objs[p[2]].text)

\* compare of the version made from s with the version made from t, where
\* it was called, gave r
Gives(s, t, r) ==
    \A p \in Pairs :
        (objs[p[1]].text = s /\ objs[p[2]].text = t /\ BothValid(p) /\ Asked(p))
            => cmp[p] = Ret(r)

\* C5: for Debian and RPM, compare("1.1~before", "1.1") = -1 and
\* compare("1.1", "1.1~before") = 1: the text going on with '~' sorts before
\* the same text without it, in both argument orders.
C5_TildeBefore ==
    scheme \in {"debian", "rpm"} =>
        /\ Gives("1.1~before", "1.1", -1)
        /\ Gives("1.1", "1.1~before", 1)

\* the result for two versions whose epochs are the different integers e, f
EpochOrder(e, f) == Ret(IF U32Less(e, f) THEN -1 ELSE 1)

\* C6: for Debian and RPM, when the epochs of two valid versions differ
\* (a missing epoch being 0) the version with the larger epoch is the
\* greater one, whatever the upstream sections and the revisions are.
C6_EpochFirst ==
    scheme \in {"debian", "rpm"} =>
        \A p \in Pairs :
            (BothValid(p) /\ ~SameEpoch(p) /\ Asked(p))
                => cmp[p] = EpochOrder(Epoch(objs[p[1]].parts), Epoch(objs[p[2]].parts))

-----------------------------------------------------------------------------
(* Properties of set_version and get_version, stated on SpecSet.           *)

\* the version under test is as the constructor or Rebuild left it
Fresh == hist = <<>>

\* get_version() gave back the string the version was constructed from
SameString == out.set => out.str = built.text

\* C3: canonicalization is idempotent in every scheme: when set_version(v)
\* succeeds, get_version() returns a string c, set_version(c) succeeds and
\* get_version() then returns exactly c.
C3_Idempotent ==
    /\ (Fresh /\ valid) => exc = "none"
    /\ (Fresh /\ built.canonical) => (valid /\ SameString)

-----------------------------------------------------------------------------
(* Properties of next and previous, stated on the calls recorded in hist.  *)

MaxMsg == "maximum limit reached; cannot increment version any further."
MinMsg == "minimum limit reached; cannot decrement version any further."

\* the upstream range [start, end) of the parts: all of them in the
\* schemes that have no epoch and no revision
Range(ps) ==
    IF scheme \in {"debian", "rpm"} THEN get_upstream_positions(scheme, ps, "")
    ELSE [ok |-> TRUE, start |-> 0, end |-> Len(ps), err |-> "", exc |-> "none"]

\* the part at index i is at the maximum the format fmt gives its position
AtBound(ps, i, fmt) ==
    part_compare(At(ps, i), get_format_part(fmt, i, At(ps, i).is_integer)) = 0

\* a part from the first of the range u to position pos is missing or
\* below its maximum: it can take the increment or the carry
CanAbsorb(ps, u, pos, fmt) ==
    \E i \in u.start..(u.start + pos) : i >= u.end \/ ~AtBound(ps, i, fmt)

\* a part from the first of the range u to position pos is not zero: it
\* can take the decrement or the borrow
CanLend(ps, u, pos) ==
    \E i \in u.start..(u.start + pos) : i < u.end /\ ~is_zero(At(ps, i))

\* no call before the i-th one raised an exception
NoRaiseBefore(i) == \A j \in 1..(i - 1) : hist[j].exc = "none"

\* the i-th call is op, made on a valid version, and nothing raised so far
Stepped(i, op) ==
    /\ hist[i].op = op
    /\ hist[i].was_valid
    /\ NoRaiseBefore(i + 1)

\* the i-th call returned false with the message msg and left the version
\* invalid and empty
Refused(c, msg) == ~c.ok => (c.err = msg /\ c.post = <<>>)

NextSaturates(c) ==
    /\ c.ok = CanAbsorb(c.pre, Range(c.pre), c.pos, c.fmt)
    /\ Refused(c, MaxMsg)

PreviousSaturates(c) ==
    /\ c.ok = CanLend(c.pre, Range(c.pre), c.pos)
    /\ Refused(c, MinMsg)

\* C7: in every scheme and for pos in [0, 25), next(pos) carries to the
\* left past the parts that are at their maximum and returns false, with
\* the maximum limit message and an invalid version, exactly when no part
\* down to the leftmost one can take the carry; previous(pos) borrows past
\* the parts that are zero and returns false, with the minimum limit
\* message, exactly when all the parts down to the leftmost one are zero.
C7_Saturation ==
    \A i \in 1..Len(hist) :
        /\ Stepped(i, "next") => NextSaturates(hist[i])
        /\ Stepped(i, "previous") => PreviousSaturates(hist[i])

\* C8: in every scheme, next(pos) and previous(pos) on a valid version and
\* with pos in [0, 25) never raise an exception.
C8_NoException ==
    \A i \in 1..Len(hist) :
        (hist[i].op \in {"next", "previous"} /\ hist[i].was_valid /\ NoRaiseBefore(i))
            => hist[i].exc = "none"

\* the i-th call is op and returned true, and the next call is the call
\* back at the same position and with the same format
RoundTrip(i, op, back) ==
    /\ Stepped(i, op)
    /\ hist[i].ok
    /\ hist[i].exc = "none"
    /\ hist[i + 1].op = back
    /\ hist[i + 1].pos = hist[i].pos
    /\ hist[i + 1].fmt = hist[i].fmt

\* the call c returned true
Succeeded(c) == c.ok /\ c.exc = "none"

\* the call b succeeded and left a version that compares equal to the one
\* the call a was made on
Restored(a, b) ==
    Succeeded(b) /\ compare(scheme, b.post, TRUE, a.pre, TRUE) = Ret(0)

\* the part at position pos of the range u is a boundary part: it is at
\* the maximum of the format, so that next carries, or at the maximum of
\* its type, where part::next does nothing
Boundary(ps, u, pos, fmt) ==
    /\ u.start + pos < u.end
    /\ \/ AtBound(ps, u.start + pos, fmt)
       \/ ~part_next(At(ps, u.start + pos)).ok

\* the parts after position pos of the range u are all zero
TailZero(ps, u, pos) ==
    \A i \in (u.start + pos + 1)..(u.end - 1) : is_zero(At(ps, i))

\* the call c was not made on a boundary part
Plain(c) == ~Boundary(c.pre, Range(c.pre), c.pos, c.fmt)

\* the version the call c was made on has nothing but zeroes after c.pos
Short(c) == TailZero(c.pre, Range(c.pre), c.pos)

Generic == scheme \notin {"debian", "rpm"}

Canon(ps) == to_string(scheme, ps, "")

\* position pos is at or beyond the last part of the range u
AtLast(u, pos) == u.start + pos >= u.end - 1

\* the call b succeeded and get_version() is again what it was before the
\* call a
SameCanon(a, b) ==
    Succeeded(b) /\ Canon(b.post).exc = "none" /\ Canon(b.post).str = Canon(a.pre).str

\* C10: for a valid version and a position p at or beyond its last upstream
\* part, when previous(p) succeeds a next(p) right after it succeeds and
\* get_version() is again exactly the canonical string of the original.
C10_PreviousNext ==
    \A i \in 1..(Len(hist) - 1) :
        (/\ RoundTrip(i, "previous", "next")
         /\ AtLast(Range(hist[i].pre), hist[i].pos)
         /\ Canon(hist[i].pre).exc = "none")
            => SameCanon(hist[i], hist[i + 1])

-----------------------------------------------------------------------------
(* The parts of a version filled to the maximum: push_back, insert and     *)
(* resize called on its trait, and set_version, next and previous.         *)

\* a version string of MAX_PARTS parts
Full == "1" \o Repeat(".1", MAX_PARTS - 1)

\* the part handed to push_back and insert
Added == set_separator(DefaultPart, ".")

\* the version under test after a call on its trait that gave c
AfterTrait(c) ==
    [parts |-> c.parts, valid |-> valid, last_error |-> c.err, exc |-> c.exc]

\* the trait of the version under test
Trait == Ctx(TRUE, parts, last_error, "none")

InitParts ==
    /\ scheme \in Schemes
    /\ \E v \in {"1.0", "5:1.5.3-r5", Full} :
           /\ Is(Construct(scheme, v))
           /\ built = [text |-> v, canonical |-> FALSE]
    /\ format = <<>>
    /\ out = NoOut
    /\ hist = <<>>
    /\ objs = [x \in Objs |-> Named("", NewObject)]
    /\ cmp = [p \in Pairs |-> Unset]

\* get_trait()->push_back(p)
PushBack ==
    /\ Len(hist) < MaxCalls
    /\ Called("push_back", Len(parts), "", AfterTrait(push_back(Trait, Added)))
    /\ UNCHANGED <<scheme, format, built, objs, cmp>>

\* get_trait()->insert(index, p), index at most size()
Insert(index) ==
    /\ Len(hist) < MaxCalls
    /\ index <= Len(parts)
    /\ Called("insert", index, "", AfterTrait(insert(Trait, index, Added)))
    /\ UNCHANGED <<scheme, format, built, objs, cmp>>

\* get_trait()->resize(sz)
Resize(sz) ==
    /\ Len(hist) < MaxCalls
    /\ Called("resize", sz, "", AfterTrait(resize(Trait, sz)))
    /\ UNCHANGED <<scheme, format, built, objs, cmp>>

NextParts ==
    \/ PushBack
    \/ \E index \in {0, 1} : Insert(index)
    \/ \E sz \in {0, MAX_PARTS - 1, MAX_PARTS, MAX_PARTS + 1} : Resize(sz)
    \/ \E v \in {Full, TooMany} : SetVersion(v)
    \/ DoNext(MAX_PARTS - 1)
    \/ DoPrevious(MAX_PARTS - 1)

SpecParts == InitParts /\ [][NextParts]_vars

-----------------------------------------------------------------------------
(* A version with a format: "1.3.2" under the format "9.9.9z.9", walked up *)
(* with next(4) and then down with previous(4).                            *)

\* next(4) is called up to MaxUp times, then previous(4) up to MaxDown times
MaxUp == 10

MaxDown == 12

\* the position of the walk
WalkPos == 4

WalkVersion == "1.3.2"

WalkFormat == "9.9.9z.9"

\* the schemes that accept letters, so that the format is a valid version
LetterSchemes == {"unicode", "debian", "rpm"}

\* the number of calls of op recorded in h
Count(h, op) == Cardinality({i \in 1..Len(h) : h[i].op = op})

InitWalk ==
    /\ scheme \in LetterSchemes
    /\ Is(Construct(scheme, WalkVersion))
    /\ built = [text |-> WalkVersion, canonical |-> FALSE]
    /\ format = Construct(scheme, WalkFormat).parts
    /\ out = NoOut
    /\ hist = <<>>
    /\ objs = [x \in Objs |-> Named("", NewObject)]
    /\ cmp = [p \in Pairs |-> Unset]

\* next(4), as long as previous was not called
WalkNext ==
    /\ Count(hist, "next") < MaxUp
    /\ Count(hist, "previous") = 0
    /\ Called("next", WalkPos, "", next(scheme, Self, WalkPos, format))
    /\ UNCHANGED <<scheme, format, built, objs, cmp>>

WalkPrevious ==
    /\ Count(hist, "previous") < MaxDown
    /\ Called("previous", WalkPos, "", previous(scheme, Self, WalkPos, format))
    /\ UNCHANGED <<scheme, format, built, objs, cmp>>

NextWalk == WalkNext \/ WalkPrevious

SpecWalk == InitWalk /\ [][NextWalk]_vars

-----------------------------------------------------------------------------
(* Properties of next and previous with a format, stated on SpecWalk.      *)

\* the letters in the order of their codes, from 'A' up to 'z'
Letters == "ABCDEFGHIJKLMNOPQRSTUVWXYZabcdefghijklmnopqrstuvwxyz"

\* the reading n of an odometer "1.3.P L.D" whose wheels are P in 0 .. 9,
\* L in 'A' .. 'z' and D in 0 .. 9, as get_version() gives it: the
\* trailing zeroes (a D of 0, and then an L of 'A') are not shown
Reading(n) ==
    LET d == n % 10
        l == (n \div 10) % Len(Letters)
        p == n \div (10 * Len(Letters))
    IN  "1.3." \o CharOf(48 + p)
            \o (IF l = 0 /\ d = 0 THEN "" ELSE Chr(Letters, l + 1))
            \o (IF d = 0 THEN "" ELSE "." \o CharOf(48 + d))

\* the reading of "1.3.2", and the one k steps away from it
Odometer(k) == Reading(2 * 10 * Len(Letters) + k)

\* the calls of next less the calls of previous among the first i calls
Net(i) == Count(SubSeq(hist, 1, i), "next") - Count(SubSeq(hist, 1, i), "previous")

\* the i-th call returned true and get_version() is then the string s
Shows(i, s) ==
    /\ Succeeded(hist[i])
    /\ Canon(hist[i].post) = Str(s, hist[i].err, "none")

\* C11: with the format "9.9.9z.9" set, next(4) and previous(4) on "1.3.2"
\* count like an odometer bounded at each position by the format: the
\* parts added are the letters "A" and the number 0, ten calls of next(4)
\* give "1.3.2A.1" to "1.3.2A.9" and then "1.3.2B", and the calls of
\* previous(4) walk back through the same strings.
C11_Odometer ==
    \A i \in 1..Len(hist) :
        (\A j \in 1..(i - 1) : Succeeded(hist[j])) => Shows(i, Odometer(Net(i)))

-----------------------------------------------------------------------------
(* Properties of the Debian and RPM next and previous, stated on Spec.     *)

IsEpoch(p) == p.type = ":"

IsRevision(p) == p.type = "-"

\* the epoch part and the revision parts of a version, in their order
Around(ps) == [epoch |-> SelectSeq(ps, IsEpoch), revision |-> SelectSeq(ps, IsRevision)]

\* the i-th call is a next or a previous made on a valid version, it
\* returned true and nothing raised so far
Moved(i) ==
    /\ hist[i].op \in {"next", "previous"}
    /\ hist[i].was_valid
    /\ NoRaiseBefore(i + 1)
    /\ hist[i].ok

\* C12: in Debian and RPM a successful next(p) or previous(p), p in
\* [0, 25), leaves the epoch part and every revision part as they were:
\* same values, same separators, same order.
C12_OnlyUpstream ==
    scheme \in {"debian", "rpm"} =>
        \A i \in 1..Len(hist) :
            Moved(i) => Around(hist[i].post) = Around(hist[i].pre)

-----------------------------------------------------------------------------
(* Properties of set_version on a version already in use, stated on        *)
(* SpecSet.                                                                *)

\* the i-th call is a set_version that returned true
Parsed(i) == hist[i].op = "set_version" /\ hist[i].ok /\ hist[i].exc = "none"

\* the version is as a new version of the scheme constructed from the text
AsNew(ps, text) ==
    /\ ps = Construct(scheme, text).parts
    /\ Canon(ps) = Canon(Construct(scheme, text).parts)

\* C13: a set_version(v) that succeeds, on a version that held anything
\* before, leaves exactly the parts which a new version of the same scheme
\* gets for v: same size() and same get_version().
C13_OnlyInput ==
    \A i \in 1..Len(hist) : Parsed(i) => AsNew(hist[i].post, hist[i].text)

-----------------------------------------------------------------------------
(* Properties of set_version on bad input, stated on SpecSet.              *)

\* the text is not a valid version of the scheme: a new version
\* constructed from it is not valid
Bad(text) == ~InputValid[scheme][text]

BasicMsg == "basic versions only support integers separated by periods (.)."

\* the call c returned false, left a message in last_error and the version
\* empty
Rejected(c) == c.exc = "none" /\ ~c.ok /\ c.err # "" /\ c.post = <<>>

\* C14: set_version never raises on bad input; for every string
\* that is not a valid version of the scheme it returns false and leaves a
\* message in last_error, for letters in a basic version the message
\* "basic versions only support integers separated by periods (.).".
C14_NeverThrows ==
    \A i \in 1..Len(hist) :
        (hist[i].op = "set_version" /\ Bad(hist[i].text))
            => /\ Rejected(hist[i])
               /\ (scheme = "basic" /\ hist[i].text = "1.x") => hist[i].err = BasicMsg

-----------------------------------------------------------------------------
(* Properties of the calls that return false, stated on SpecCalls.         *)

\* the i-th call is a set_version, next or previous that returned false
Failed(i) ==
    /\ hist[i].op \in {"set_version", "next", "previous"}
    /\ hist[i].exc = "none"
    /\ ~hist[i].ok

\* the version left by the call c is empty and get_version() returns the
\* empty string
Emptied(c) ==
    /\ c.post = <<>>
    /\ Canon(c.post).exc = "none"
    /\ Canon(c.post).str = ""

\* C15: after a set_version, next or previous that returns false the
\* version is empty and not valid: is_valid() is false, size() is 0 and
\* get_version() returns the empty string.
C15_EmptyAfterFailure ==
    \A i \in 1..Len(hist) : Failed(i) => Emptied(hist[i])

\* a next or previous returned false and left the version empty, and then
\* a set_version did the same
C15_Reached ==
    /\ Len(hist) = 2
    /\ hist[1].op \in {"next", "previous"} /\ hist[1].was_valid
    /\ Failed(1) /\ hist[1].pre # <<>> /\ Emptied(hist[1])
    /\ hist[2].op = "set_version" /\ Failed(2) /\ Emptied(hist[2])

-----------------------------------------------------------------------------
(* Properties of the number of parts, stated on SpecParts.                 *)

\* the call c asks for a part beyond the last one allowed
Beyond(c) ==
    \/ c.op \in {"push_back", "insert"} /\ Len(c.pre) = MAX_PARTS
    \/ c.op = "resize" /\ c.pos > MAX_PARTS
    \/ c.op = "set_version" /\ c.text = TooMany

\* the call c raised the error of the maximum number of parts
Refuses(c) == c.exc = "invalid_parameter" /\ Len(c.post) <= MAX_PARTS

\* C16: the parts of a version are never more than MAX_PARTS, whatever
\* set_version, next, previous, push_back, insert and resize are called;
\* a call that asks for a 26th part fails with the error of the maximum
\* number of parts and leaves MAX_PARTS parts or fewer.
C16_AtMostMaxParts ==
    /\ Len(parts) <= MAX_PARTS
    /\ \A i \in 1..Len(hist) :
           /\ Len(hist[i].post) <= MAX_PARTS
           /\ Beyond(hist[i]) => Refuses(hist[i])

\* push_back was called on MAX_PARTS parts and raised, and so did
\* set_version with a string of MAX_PARTS + 1 parts
C16_Reached ==
    /\ Len(hist) = 2
    /\ hist[1].op = "push_back" /\ Len(hist[1].pre) = MAX_PARTS
    /\ Refuses(hist[1]) /\ hist[1].post = hist[1].pre
    /\ hist[2].op = "set_version" /\ hist[2].text = TooMany /\ Refuses(hist[2])

-----------------------------------------------------------------------------
(* Properties of the numbers read by set_version, stated on SpecSet.       *)

LargeMsg == "integer too large for a valid version."

\* the text is a run of digits that does not start with a zero
Digits(text) ==
    /\ text # ""
    /\ Chr(text, 1) # "0"
    /\ \A k \in 1..Len(text) : IsDigit(Chr(text, k))

\* the number written by the digits is more than 4294967295
TooLarge(text) ==
    \/ Len(text) > Len(U32Str(Max32))
    \/ Len(text) = Len(U32Str(Max32)) /\ StrLess(U32Str(Max32), text)

\* the last part left by the call c is the number written by the text
Stored(c) ==
    /\ c.post # <<>>
    /\ c.post[Len(c.post)].is_integer
    /\ U32Str(c.post[Len(c.post)].integer) = c.text

\* C17: parsing never stores a wrapped integer: set_version rejects a run
\* of digits whose value is more than 4294967295 with the error "integer
\* too large for a valid version.", and the integer stored for a run of
\* digits is the number that the digits write.
C17_NoWrappedInteger ==
    \A i \in 1..Len(hist) :
        (hist[i].op = "set_version" /\ Digits(hist[i].text))
            => IF TooLarge(hist[i].text)
               THEN Rejected(hist[i]) /\ hist[i].err = LargeMsg
               ELSE Succeeded(hist[i]) => Stored(hist[i])

-----------------------------------------------------------------------------
(* Properties of the canonical string, stated on SpecSet.                  *)

\* the parts ps written out one after the other, each with its recorded
\* separator, the last trailing zero parts beyond the second left out;
\* a lone part is followed by ".0"
Shortened(ps) ==
    IF Len(ps) = 1 THEN part_to_string(At(ps, 0)) \o ".0"
    ELSE JoinParts(scheme, ps, 0, TrimZeroes(ps, Len(ps), 2))

\* C18: in the schemes that use the generic to_string (basic, unicode)
\* the canonical string is the parsed parts with the trailing zero parts
\* dropped but never fewer than two parts: a lone "N" gives "N.0",
\* "1.0.0.0" gives "1.0", and the parts kept and their separators are
\* written out unchanged.
C18_GenericCanonical ==
    (scheme \in {"basic", "unicode"} /\ out.set) => out.str = Shortened(parts)

\* the range of the upstream parts of ps: the parts after the epoch and
\* before the revision
Upstream(ps) == UpstreamLoop(ps, 0, 0, Len(ps))

\* the upstream parts of ps written out, the trailing zero parts beyond
\* the second left out, a lone part followed by ".0"
UpstreamText(ps) ==
    LET u == Upstream(ps)
    IN  IF u.end - u.start = 1 THEN part_to_string(At(ps, u.start)) \o ".0"
        ELSE part_to_string(At(ps, u.start))
                \o JoinParts(scheme, ps, u.start + 1,
                             TrimZeroes(ps, u.end, u.start + 2))

\* the revision parts of ps written out as they were parsed
RevisionText(ps) == JoinParts(scheme, ps, Upstream(ps).end, Len(ps))

\* the epoch of ps and its colon
EpochText(ps) == part_to_string(At(ps, 0)) \o ":"

\* s is the upstream and revision of ps, after the epoch if s has one
AfterEpoch(ps, s) ==
    \/ s = UpstreamText(ps) \o RevisionText(ps)
    \/ /\ IsEpoch(At(ps, 0))
       /\ s = EpochText(ps) \o UpstreamText(ps) \o RevisionText(ps)

\* C19: get_version() of a newly constructed valid Debian version returns
\* the upstream parts without their trailing zero parts but never fewer
\* than two of them ("3" gives "3.0", "1.0.0.0" gives "1.0", "1.0" stays
\* "1.0"), each with its recorded separator, followed by the revision as
\* it was parsed.
C19_DebianUpstream ==
    (scheme = "debian" /\ Fresh /\ valid)
        => /\ exc = "none"
           /\ out.set => AfterEpoch(parts, out.str)

\* the upstream parts of ps, written out, hold a colon
ColonInUpstream(ps) ==
    Find(JoinParts(scheme, ps, Upstream(ps).start + 1, Upstream(ps).end), ":") # 0

\* the text s starts with the text t
StartsWith(s, t) == Len(s) >= Len(t) /\ SubSeq(s, 1, Len(t)) = t

\* C20: get_version() of a newly constructed valid Debian version writes
\* the epoch only when it is not zero or when the upstream holds a ':':
\* "0:2.71.3z-rc32.5" gives "2.71.3z-rc32.5", "0:2.71:3z" keeps its "0:"
\* and an epoch that is not zero is always kept.
C20_DebianEpoch ==
    (scheme = "debian" /\ Fresh /\ valid /\ out.set /\ IsEpoch(At(parts, 0)))
        => IF ~is_zero(At(parts, 0)) \/ ColonInUpstream(parts)
           THEN StartsWith(out.str, EpochText(parts))
           ELSE ~StartsWith(out.str, EpochText(parts))

-----------------------------------------------------------------------------
(* Three Debian or RPM versions and compare: the sub-parts that meet.      *)

OrderSchemes == {"debian", "rpm"}

\* the versions handed to compare
OrderInputs ==
    {"1.0", "1.a", "1.1", "1._1", "1.1-rc1", "1.1-_rc1", "1.1-rc1_",
     "1.1-rc2", "1.2147483648", "1.4294967295"}

InitOrder ==
    /\ scheme \in OrderSchemes
    /\ parts = NewObject.parts
    /\ valid = NewObject.valid
    /\ last_error = NewObject.last_error
    /\ format = <<>>
    /\ exc = "none"
    /\ out = NoOut
    /\ hist = <<>>
    /\ built = [text |-> "", canonical |-> FALSE]
    /\ \E t \in [Objs -> OrderInputs] :
           objs = [x \in Objs |-> Named(t[x], Construct(scheme, t[x]))]
    /\ cmp = [p \in Pairs |-> Unset]

SpecOrder == InitOrder /\ [][NextCmp]_vars

-----------------------------------------------------------------------------
(* Properties of compare, stated on the three versions of SpecOrder.       *)

\* the parts a and b hold the same value and belong to the same section
SamePart(a, b) ==
    /\ a.is_integer = b.is_integer
    /\ a.type = b.type
    /\ IF a.is_integer THEN a.integer = b.integer ELSE a.string = b.string

\* index is the first place where the versions l and r differ, and both
\* have a part of the same section there
Meet(l, r, index) ==
    /\ index < Len(l) /\ index < Len(r)
    /\ \A i \in 0..(index - 1) : SamePart(At(l, i), At(r, i))
    /\ ~SamePart(At(l, index), At(r, index))
    /\ At(l, index).type = At(r, index).type

\* at index an integer of l meets a string of r
IntegerMeetsString(l, r, index) ==
    /\ Meet(l, r, index)
    /\ At(l, index).is_integer /\ ~At(r, index).is_integer

\* the pairs of valid versions compared, the first with an integer where
\* the second has a string
Mixed(p, index) ==
    /\ BothValid(p) /\ Asked(p) /\ Asked(Rev(p))
    /\ IntegerMeetsString(objs[p[1]].parts, objs[p[2]].parts, index)

Places == 0..(MAX_PARTS - 1)

\* C21: in RPM compare, when an integer sub-part meets a string sub-part
\* at the same position the integer side is the greater one, unless the
\* integer is 0 and the string is not empty: then the side of the 0 is the
\* smaller one.
C21_IntegerAboveString ==
    scheme = "rpm" =>
        \A p \in Pairs : \A index \in Places :
            Mixed(p, index) =>
                LET zero == is_zero(At(objs[p[1]].parts, index))
                IN  /\ cmp[p] = Ret(IF zero THEN -1 ELSE 1)
                    /\ cmp[Rev(p)] = Ret(IF zero THEN 1 ELSE -1)

\* C21, as the code has it: in RPM compare, when an integer sub-part
\* meets a string sub-part at the same position the integer side is the
\* greater one, also when the integer is 0.
C21_IntegerAlwaysAbove ==
    scheme = "rpm" =>
        \A p \in Pairs : \A index \in Places :
            Mixed(p, index) => (cmp[p] = Ret(1) /\ cmp[Rev(p)] = Ret(-1))

\* "1.0" was compared with "1.a" in both orders
C21_Reached ==
    /\ scheme = "rpm"
    /\ \E p \in Pairs :
           /\ objs[p[1]].text = "1.0" /\ objs[p[2]].text = "1.a"
           /\ Mixed(p, 1)

\* the text s without its '_' characters
RECURSIVE Stripped(_)
Stripped(s) ==
    IF s = "" THEN ""
    ELSE (IF Chr(s, 1) = "_" THEN "" ELSE SubSeq(s, 1, 1))
            \o Stripped(SubSeq(s, 2, Len(s)))

\* the versions x and y are valid and have the same text but for '_'
Alike(x, y) ==
    /\ objs[x].valid /\ objs[y].valid
    /\ Stripped(objs[x].text) = Stripped(objs[y].text)

\* C22: RPM compare ignores '_': two valid RPM versions whose texts are
\* the same once every '_' is removed compare equal in both argument
\* orders ("1.1-rc1", "1.1-_rc1", "1.1-rc1_"), and they compare the same
\* way against every third version.
C22_UnderscoreIgnored ==
    scheme = "rpm" =>
        \A x \in Objs : \A y \in Objs \ {x} :
            Alike(x, y) =>
                /\ Asked(<<x, y>>) => cmp[<<x, y>>] = Ret(0)
                /\ \A z \in Objs \ {x, y} :
                       objs[z].valid =>
                           /\ (Asked(<<x, z>>) /\ Asked(<<y, z>>))
                                  => cmp[<<x, z>>] = cmp[<<y, z>>]
                           /\ (Asked(<<z, x>>) /\ Asked(<<z, y>>))
                                  => cmp[<<z, x>>] = cmp[<<z, y>>]

-----------------------------------------------------------------------------
(* The roman codec: a number, or the number read from a numeral, is        *)
(* written by to_roman_number and what it wrote is read back by            *)
(* from_roman_number.  parts holds the number as one integer part, out     *)
(* the numeral written and format the number read back.                    *)

\* the largest number handed to to_roman_number one by one
MaxRoman == 4000

\* the numbers handed to to_roman_number
RomanNumbers == {FromNat(n) : n \in 0..MaxRoman} \cup {U32(1, 4), Max32}

\* the numerals handed to from_roman_number
RomanTexts == {"IIII", "IV", "iv", "VIIII", "IX", "XXXX", "MMMM", "IC", "A4"}

Number(n) == <<set_integer(DefaultPart, n)>>

InitRoman ==
    /\ scheme = "roman"
    /\ \/ \E n \in RomanNumbers :
              parts = Number(n) /\ built = [text |-> "", canonical |-> FALSE]
       \/ \E t \in RomanTexts :
              parts = <<>> /\ built = [text |-> t, canonical |-> FALSE]
    /\ valid = NewObject.valid
    /\ last_error = NewObject.last_error
    /\ format = <<>>
    /\ exc = "none"
    /\ out = NoOut
    /\ hist = <<>>
    /\ objs = [x \in Objs |-> Named("", NewObject)]
    /\ cmp = [p \in Pairs |-> Unset]

\* from_roman_number(text) for the numeral given
FromText ==
    /\ parts = <<>>
    /\ parts' = Number(from_roman_number(built.text))
    /\ UNCHANGED <<scheme, valid, last_error, format, exc, out, hist, built,
                   objs, cmp>>

\* to_roman_number(n)
ToRoman ==
    /\ parts # <<>> /\ ~out.set
    /\ out' = [set |-> TRUE, str |-> to_roman_number(At(parts, 0).integer)]
    /\ UNCHANGED <<scheme, parts, valid, last_error, format, exc, hist, built,
                   objs, cmp>>

\* from_roman_number of what to_roman_number returned
FromRoman ==
    /\ out.set /\ format = <<>>
    /\ format' = Number(from_roman_number(out.str))
    /\ UNCHANGED <<scheme, parts, valid, last_error, exc, out, hist, built,
                   objs, cmp>>

NextRoman == FromText \/ ToRoman \/ FromRoman

SpecRoman == InitRoman /\ [][NextRoman]_vars

-----------------------------------------------------------------------------
(* Properties of the roman codec, stated on SpecRoman.                     *)

\* n is one of 1 .. 3999
InRomanRange(n) == n.hi = 0 /\ n.lo >= 1 /\ n.lo <= 3999

\* the numeral text was read as the number n and n written as the numeral s
Recoded(text, n, s) ==
    (built.text = text /\ out.set)
        => (At(parts, 0).integer = FromNat(n) /\ out.str = s)

\* C23: to_roman_number(n) is a numeral that is not empty exactly for n in
\* 1 .. 3999 (the empty string for 0 and for every n above 3999), and
\* from_roman_number(to_roman_number(n)) = n for every n in 1 .. 3999; a
\* numeral that is not canonical is read and written back canonically:
\* "IIII" is read as 4 and 4 is written "IV".
C23_RomanCodec ==
    /\ out.set => (out.str # "" <=> InRomanRange(At(parts, 0).integer))
    /\ (format # <<>> /\ InRomanRange(At(parts, 0).integer))
           => At(format, 0).integer = At(parts, 0).integer
    /\ Recoded("IIII", 4, "IV")

\* "IIII" was read as 4, 4 written "IV" and "IV" read back as 4
C23_Reached ==
    /\ built.text = "IIII" /\ out.set /\ out.str = "IV"
    /\ At(parts, 0).integer = FromNat(4)
    /\ format # <<>> /\ At(format, 0).integer = FromNat(4)

-----------------------------------------------------------------------------
(* One string part and its next() and previous().  parts holds the part,   *)
(* hist the calls made and valid what the last call returned.              *)

\* calls of next and previous made on one part
MaxSteps == 3

\* the strings the part is made from
PartStrings ==
    {"A", "AA", "Z", "a", "y", "z", "zz", "Az", "yz", "AZ", "a+z", "A+A",
     "z+z"}

\* the part after a call that gave r
AfterPart(r) ==
    [parts |-> <<r.part>>, valid |-> r.ok, last_error |-> "", exc |-> "none"]

InitPart ==
    /\ scheme = "unicode"
    /\ \E s \in PartStrings : parts = <<set_string(DefaultPart, s)>>
    /\ valid = TRUE
    /\ last_error = ""
    /\ format = <<>>
    /\ exc = "none"
    /\ out = NoOut
    /\ hist = <<>>
    /\ built = [text |-> "", canonical |-> FALSE]
    /\ objs = [x \in Objs |-> Named("", NewObject)]
    /\ cmp = [p \in Pairs |-> Unset]

\* p.next()
PartNext ==
    /\ Len(hist) < MaxSteps
    /\ Called("next", 0, "", AfterPart(part_next(At(parts, 0))))
    /\ UNCHANGED <<scheme, format, built, objs, cmp>>

\* p.previous()
PartPrevious ==
    /\ Len(hist) < MaxSteps
    /\ Called("previous", 0, "", AfterPart(part_previous(At(parts, 0))))
    /\ UNCHANGED <<scheme, format, built, objs, cmp>>

NextPart == PartNext \/ PartPrevious

SpecPart == InitPart /\ [][NextPart]_vars

-----------------------------------------------------------------------------
(* Properties of part::next and part::previous, stated on SpecPart.        *)

\* the place of the letter c in A .. Z, a .. z, 0 if c is no letter
Place(c) == Find(Letters, c)

\* every letter of s is the letter c
AllLetters(s, c) == \A i \in 1..Len(s) : Place(Chr(s, i)) # 0 => Chr(s, i) = c

\* s with the character at pos replaced by c
WithChar(s, pos, c) == SubSeq(s, 1, pos - 1) \o c \o SubSeq(s, pos + 1, Len(s))

\* s one step up in A .. Z, a .. z from the character at pos leftwards:
\* a 'z' turns to 'A' and the step goes on to the left, the other
\* characters that are no letters are passed over
RECURSIVE StepUp(_, _)
StepUp(s, pos) ==
    IF pos = 0 THEN s
    ELSE LET c == Chr(s, pos)
         IN  IF Place(c) = 0 THEN StepUp(s, pos - 1)
             ELSE IF c = "z" THEN StepUp(WithChar(s, pos, "A"), pos - 1)
             ELSE WithChar(s, pos, Chr(Letters, Place(c) + 1))

\* s one step down: an 'A' turns to 'z' and the step goes on to the left
RECURSIVE StepDown(_, _)
StepDown(s, pos) ==
    IF pos = 0 THEN s
    ELSE LET c == Chr(s, pos)
         IN  IF Place(c) = 0 THEN StepDown(s, pos - 1)
             ELSE IF c = "A" THEN StepDown(WithChar(s, pos, "z"), pos - 1)
             ELSE WithChar(s, pos, Chr(Letters, Place(c) - 1))

\* the call c, made on the string s, returned false and left s, when
\* every letter of s is the letter last, and else returned true and left t
Steps(c, s, last, t) ==
    IF AllLetters(s, last) THEN ~c.ok /\ c.post = c.pre
    ELSE c.ok /\ At(c.post, 0).string = t

\* C24: next() and previous() on a string part step its letters through
\* the 52 letters A .. Z, a .. z: 'Z' is followed by 'a', 'z' turns to 'A'
\* with a carry into the nearest letter on its left, and the characters
\* that are no letters are left as they are; next() returns false and
\* leaves the string as it is exactly when every letter is 'z', and
\* previous() exactly when every letter is 'A'.
C24_LetterSteps ==
    \A i \in 1..Len(hist) :
        LET s == At(hist[i].pre, 0).string
        IN  IF hist[i].op = "next"
            THEN Steps(hist[i], s, "z", StepUp(s, Len(s)))
            ELSE Steps(hist[i], s, "A", StepDown(s, Len(s)))

-----------------------------------------------------------------------------
(* Properties of next and previous, stated on Spec.                        *)

\* the number of parts of ps that next and previous count: the parts of
\* the upstream range in Debian and RPM, all the parts elsewhere
Counted(ps) == IF ps = <<>> THEN 0 ELSE Range(ps).end - Range(ps).start

\* the i-th call was made on a valid version with parts after position
\* pos, and returned true
Cut(i) ==
    /\ hist[i].was_valid /\ Succeeded(hist[i])
    /\ Counted(hist[i].pre) > hist[i].pos + 1

\* C25: previous(p), like next(p), removes every part after position p:
\* a call that returns true on a valid version with more than p + 1 parts
\* leaves no part at an index above p.
C25_PreviousCuts ==
    \A i \in 1..Len(hist) :
        (hist[i].op = "previous" /\ Cut(i))
            => Counted(hist[i].post) <= hist[i].pos + 1

\* what compare gives for the version the i-th call left against the
\* version it was made on
Against(i) == compare(scheme, hist[i].post, TRUE, hist[i].pre, TRUE)

\* C26: next and previous are strictly monotone for compare: when next(p)
\* returns true the version compares greater than the version before the
\* call, and when previous(p) returns true it compares smaller, in every
\* scheme, with every format and at every position.
C26_Monotone ==
    \A i \in 1..Len(hist) :
        (hist[i].was_valid /\ Succeeded(hist[i]))
            => Against(i) = Ret(IF hist[i].op = "next" THEN 1 ELSE -1)

-----------------------------------------------------------------------------
(* Properties of compare, stated on the three versions of SpecOrder.       *)

\* C27: debian::compare comes to an end and returns -1, 0 or 1 for every
\* two valid Debian versions, also for a version compared with a version
\* of the same text and when one or both have a revision after the same
\* upstream.
C27_DebianCompareEnds ==
    scheme = "debian" =>
        \A p \in Pairs :
            (BothValid(p) /\ Asked(p))
                => (Compared(p) /\ cmp[p].r \in {-1, 0, 1})

\* the pairs of valid versions compared, both with an integer at the
\* first place where they differ
Numbers(p, index) ==
    /\ BothValid(p) /\ Asked(p)
    /\ Meet(objs[p[1]].parts, objs[p[2]].parts, index)
    /\ At(objs[p[1]].parts, index).is_integer
    /\ At(objs[p[2]].parts, index).is_integer

\* C28: Debian and RPM compare order the integer sub-parts by their value
\* as unsigned 32-bit numbers: when the first sub-parts that differ are
\* the integers x < y, the version with x is the smaller one, also when y
\* is 2147483648 or more.
C28_UnsignedOrder ==
    scheme \in {"debian", "rpm"} =>
        \A p \in Pairs : \A index \in Places :
            Numbers(p, index) =>
                cmp[p] = Ret(IF U32Less(At(objs[p[1]].parts, index).integer,
                                        At(objs[p[2]].parts, index).integer)
                             THEN -1 ELSE 1)

-----------------------------------------------------------------------------
(* Properties of get_version, stated on Spec.                              *)

\* the version under test is valid and as the constructor or a call that
\* returned true left it
Sound == valid /\ (hist = <<>> \/ Succeeded(hist[Len(hist)]))

\* a new version made from the string s is valid and compares equal to
\* the version under test
SameVersion(s) ==
    LET f == Construct(scheme, s)
    IN  f.valid /\ compare(scheme, f.parts, f.valid, parts, valid) = Ret(0)

\* C29: whenever the version is valid, after a set_version, next or
\* previous that returned true, get_version() returns without an
\* exception a string s that is not empty, and a new version of the same
\* scheme made from s is valid and compares equal to this one.
C29_ValidShows ==
    Sound =>
        /\ get_version(scheme, Self).exc = "none"
        /\ out.set => (out.str # "" /\ SameVersion(out.str))

-----------------------------------------------------------------------------
(* A version constructed from an input, then set_major, set_minor,         *)
(* set_patch, set_build and get_version.                                   *)

\* the strings the version is constructed from
FieldInputs(sch) ==
    {"1.2.3", "1.0", "3", "1.2.3.4"}
        \cup (IF sch \in {"debian", "rpm"} THEN {"5:1.5.3-r5"} ELSE {})
        \cup (IF sch = "unicode" THEN {"1.a.3"} ELSE {})

\* the values given to the setters
FieldValues == {U32(0, 0), U32(0, 5), U32(Half - 1, Half - 1)}

InitFields ==
    /\ scheme \in Schemes
    /\ \E v \in FieldInputs(scheme) :
           /\ Is(Construct(scheme, v))
           /\ built = [text |-> v, canonical |-> FALSE]
    /\ format = <<>>
    /\ out = NoOut
    /\ hist = <<>>
    /\ objs = [x \in Objs |-> Named("", NewObject)]
    /\ cmp = [p \in Pairs |-> Unset]

SetMajor(n) ==
    /\ Len(hist) < MaxCalls
    /\ Called("set_major", 0, U32Str(n), set_major(Self @@ [exc |-> "none"], n))
    /\ UNCHANGED <<scheme, format, built, objs, cmp>>

SetMinor(n) ==
    /\ Len(hist) < MaxCalls
    /\ Called("set_minor", 1, U32Str(n), set_minor(Self @@ [exc |-> "none"], n))
    /\ UNCHANGED <<scheme, format, built, objs, cmp>>

SetPatch(n) ==
    /\ Len(hist) < MaxCalls
    /\ Called("set_patch", 2, U32Str(n), set_patch(Self @@ [exc |-> "none"], n))
    /\ UNCHANGED <<scheme, format, built, objs, cmp>>

SetBuild(n) ==
    /\ Len(hist) < MaxCalls
    /\ Called("set_build", 3, U32Str(n), set_build(Self @@ [exc |-> "none"], n))
    /\ UNCHANGED <<scheme, format, built, objs, cmp>>

NextFields ==
    \/ \E n \in FieldValues : SetMajor(n)
    \/ \E n \in FieldValues : SetMinor(n)
    \/ \E n \in FieldValues : SetPatch(n)
    \/ \E n \in FieldValues : SetBuild(n)
    \/ GetVersion

SpecFields == InitFields /\ [][NextFields]_vars

-----------------------------------------------------------------------------
(* Properties of set_major, set_minor, set_patch and set_build, stated on  *)
(* SpecFields.                                                             *)

\* the call c is one of the four setters
IsSetter(c) == c.op \in {"set_major", "set_minor", "set_patch", "set_build"}

\* the value the getter of the setter c returns from the parts ps
Got(c, ps) ==
    LET o == [parts |-> ps]
    IN  CASE c.op = "set_major" -> get_major(o)
          [] c.op = "set_minor" -> get_minor(o)
          [] c.op = "set_patch" -> get_patch(o)
          [] c.op = "set_build" -> get_build(o)

\* the call c left every other part and every separator as it was
OnlyValue(c) ==
    /\ Len(c.post) = Len(c.pre)
    /\ \A j \in 1..Len(c.pre) :
           IF j = c.pos + 1
           THEN /\ c.post[j].is_integer
                /\ c.post[j].sep = c.pre[j].sep
           ELSE c.post[j] = c.pre[j]

\* C30: set_major, set_minor, set_patch and set_build(n) on a valid
\* version whose part 0, 1, 2 or 3 is an integer change only the value of
\* that part: the getter then returns n, every other part and every
\* separator is as before, and "1.2.3" after set_minor(5) shows "1.5.3"
C30_SettersKeepShape ==
    /\ \A i \in 1..Len(hist) :
           LET c == hist[i]
           IN  (/\ IsSetter(c)
                /\ c.was_valid
                /\ Len(c.pre) > c.pos
                /\ c.pre[c.pos + 1].is_integer)
                   => /\ U32Str(Got(c, c.post)) = c.text
                      /\ OnlyValue(c)
    /\ (/\ scheme = "basic"
        /\ built.text = "1.2.3"
        /\ Len(hist) = 1
        /\ hist[1].op = "set_minor"
        /\ hist[1].text = "5"
        /\ out.set) => out.str = "1.5.3"

====
